---- MODULE Spec2Model ----
(***************************************************************************)
(* Prediction engine of the "Dame (Q)" Telegram bot.                       *)
(*                                                                         *)
(* Two predictor variants live in the repository:                          *)
(*   - src/card_predictor677.py : the 8-rule predictor (names carry the    *)
(*     suffix 677 here), dedup by game number, resolved records popped;    *)
(*   - src/card_predictor.py    : the simple predictor (plain names),      *)
(*     dedup by text hash, make_prediction invoked by the caller,          *)
(*     resolved records kept with a terminal status.                       *)
(* The variable `variant` selects which engine instance a behaviour runs.  *)
(*                                                                         *)
(* A message text is modelled by the tokens the regular expressions of the *)
(* parser look for: the game number token, the #T token, the raw card      *)
(* tokens of the first two parenthesised groups, the glyphs and tags.      *)
(* In card_predictor677.py `verify` (line 434) is indented one level too   *)
(* deep; it is modelled as the method of CardPredictor it is written to be.*)
(***************************************************************************)
EXTENDS Integers, Sequences, FiniteSets, TLC

\* ---------------------------------------------------------------- bounds
MaxGame == 6
MaxOps == 3
MaxTicks == 2
TickStep == 30
StartTime == 1
MaxEarly == 2
MaxLate == 3
MaxInter == 5
MaxUpdates == 3
MaxCalls == 4
MaxBadFiles == 2
MaxSaveGame == 2
MaxBadWrites == 1

\* ------------------------------------------------------- program constants
prediction_cooldown == 30
HistoryWindow == 50
PointsThreshold == 40
AbsenceThreshold == 3
TargetDistance == 2
LastOffset == 2
TopRules == 3
SourceChat == 1

None == "None"
\* Python None in an integer position: no game number, no #T token, no chat id,
\* no transport message id (all of them falsy / absent in the code).
NoGame == 0
NoPoints == -1
NoChat == 0
NoId == 0
HIGH_VALUE_CARDS == {"A", "K", "Q", "J"}

\* --------------------------------------------------------------- messages
\* Raw card token: <<rank as written, suit glyph as written>>.
\* Suit "Hx" is the heart variant U+2764 that the parser normalises to "H".
Texts ==
  [ J5  |-> [g1 |-> << <<"J","S">>, <<"5","D">> >>, g2 |-> << <<"3","C">>, <<"2","H">> >>,
             T |-> -1, pend |-> FALSE, done |-> TRUE,  rx |-> FALSE, tag |-> FALSE],
    J5p |-> [g1 |-> << <<"J","S">>, <<"5","D">> >>, g2 |-> << <<"3","C">>, <<"2","H">> >>,
             T |-> -1, pend |-> TRUE,  done |-> FALSE, rx |-> FALSE, tag |-> FALSE],
    QJJ |-> [g1 |-> << <<"q","Hx">>, <<"J","S">>, <<"j","D">> >>, g2 |-> << <<"8","C">>, <<"9","H">>, <<"10","S">> >>,
             T |-> 45, pend |-> FALSE, done |-> TRUE,  rx |-> FALSE, tag |-> TRUE],
    N75 |-> [g1 |-> << <<"7","S">>, <<"5","D">> >>, g2 |-> << <<"3","C">>, <<"2","H">> >>,
             T |-> -1, pend |-> FALSE, done |-> TRUE,  rx |-> FALSE, tag |-> FALSE] ]

\* Further texts, on which single calls are evaluated; they are not delivered
\* in the behaviours explored.
ProbeTexts ==
  [ JJ  |-> [g1 |-> << <<"J","S">>, <<"J","D">> >>, g2 |-> << <<"K","C">>, <<"Q","H">> >>,
             T |-> -1, pend |-> FALSE, done |-> TRUE,  rx |-> FALSE, tag |-> FALSE],
    JJT |-> [g1 |-> << <<"J","S">>, <<"4","D">>, <<"J","C">> >>, g2 |-> << <<"8","C">>, <<"9","H">>, <<"10","S">> >>,
             T |-> 45, pend |-> FALSE, done |-> TRUE,  rx |-> FALSE, tag |-> TRUE],
    J5T |-> [g1 |-> << <<"J","S">>, <<"5","D">> >>, g2 |-> << <<"8","C">>, <<"9","H">>, <<"10","S">> >>,
             T |-> 45, pend |-> FALSE, done |-> TRUE,  rx |-> FALSE, tag |-> TRUE],
    T45 |-> [g1 |-> << <<"7","S">>, <<"5","D">> >>, g2 |-> << <<"8","C">>, <<"9","H">>, <<"10","S">> >>,
             T |-> 45, pend |-> FALSE, done |-> TRUE,  rx |-> FALSE, tag |-> TRUE],
    T40 |-> [g1 |-> << <<"A","S">>, <<"5","D">> >>, g2 |-> << <<"3","C">>, <<"2","H">> >>,
             T |-> 40, pend |-> FALSE, done |-> TRUE,  rx |-> FALSE, tag |-> FALSE],
    G89 |-> [g1 |-> << <<"A","S">>, <<"5","D">> >>, g2 |-> << <<"8","C">>, <<"9","H">>, <<"10","S">> >>,
             T |-> -1, pend |-> FALSE, done |-> TRUE,  rx |-> FALSE, tag |-> FALSE],
    KJ  |-> [g1 |-> << <<"K","S">>, <<"J","D">> >>, g2 |-> << <<"3","C">>, <<"2","H">> >>,
             T |-> -1, pend |-> FALSE, done |-> TRUE,  rx |-> FALSE, tag |-> FALSE],
    A5R |-> [g1 |-> << <<"A","S">>, <<"5","D">> >>, g2 |-> << <<"3","C">>, <<"2","H">> >>,
             T |-> -1, pend |-> FALSE, done |-> TRUE,  rx |-> FALSE, tag |-> TRUE],
    J5n |-> [g1 |-> << <<"J","S">>, <<"5","D">> >>, g2 |-> << <<"3","C">>, <<"2","H">> >>,
             T |-> -1, pend |-> FALSE, done |-> FALSE, rx |-> FALSE, tag |-> FALSE],
    QJp |-> [g1 |-> << <<"Q","S">>, <<"J","D">> >>, g2 |-> << <<"3","C">>, <<"2","H">> >>,
             T |-> -1, pend |-> TRUE,  done |-> TRUE,  rx |-> FALSE, tag |-> FALSE],
    N7K |-> [g1 |-> << <<"7","S">>, <<"5","D">> >>, g2 |-> << <<"K","C">>, <<"2","H">> >>,
             T |-> -1, pend |-> FALSE, done |-> TRUE,  rx |-> FALSE, tag |-> FALSE],
    R57 |-> [g1 |-> << <<"5","D">>, <<"7","S">> >>, g2 |-> << <<"3","C">>, <<"2","H">> >>,
             T |-> -1, pend |-> FALSE, done |-> TRUE,  rx |-> FALSE, tag |-> FALSE],
    NOG |-> [g1 |-> << >>, g2 |-> << >>,
             T |-> 45, pend |-> FALSE, done |-> TRUE,  rx |-> FALSE, tag |-> TRUE] ]

TextIds == DOMAIN Texts
Games == 1..MaxGame
Msgs == [num : Games, tid : TextIds]

\* Every text, with and without a parseable game number; these messages
\* carry their text in the field body.
AllTexts == Texts @@ ProbeTexts
AllMsgs ==
  {[num |-> n, tid |-> t, body |-> AllTexts[t]] : n \in Games \cup {NoGame}, t \in DOMAIN AllTexts}

Text(m) == IF "body" \in DOMAIN m THEN m.body ELSE Texts[m.tid]

\* The persisted files, in the order __init__ loads them.
FileOrder ==
  <<"predictions.json", "processed.json", "last_prediction_time.json",
    "channels_config.json", "sequential_history.json", "inter_data.json",
    "inter_mode_status.json", "smart_rules.json">>

FileNames == {FileOrder[i] : i \in 1..Len(FileOrder)}

NoSave == [attempts |-> << >>, returned |-> << >>]

\* The request threads of the webhook server.
Threads == {"t1", "t2"}

Idle == [pc |-> "idle", game |-> NoGame, confidence |-> None]

\* ------------------------------------------------------------------ state
VARIABLES variant, now, predictions, processed_messages, last_prediction_time,
          sequential_history, inter_data, is_inter_mode_active, smart_rules,
          target_channel_id, nops, fires, resolved, misses, suppressed,
          outbox, pending_messages, inflight, draw_history,
          updates, offset, batch, calls,
          files, loaded, ctor, writes

vars == <<variant, now, predictions, processed_messages, last_prediction_time,
          sequential_history, inter_data, is_inter_mode_active, smart_rules,
          target_channel_id, nops, fires, resolved, misses, suppressed,
          outbox, pending_messages, inflight, draw_history,
          updates, offset, batch, calls,
          files, loaded, ctor, writes>>

engine == <<predictions, processed_messages, last_prediction_time,
            sequential_history, inter_data, is_inter_mode_active, smart_rules,
            target_channel_id>>

\* History variables (observations of the run, never read by the engine):
\*   fires      the emitted predictions in order, each [game, time];
\*   resolved   target -> sequence of [status, game] resolutions returned for it;
\*   misses     <<target, offset>> pairs: a verify call examined the pending
\*              record of target at this offset with a message without Q and
\*              left it pending;
\*   suppressed <<game, time>> pairs: should_predict had a rule match for the
\*              game at this time and returned at the cooldown test.
history == <<fires, resolved, misses, suppressed>>

\* State of the update handler:
\*   outbox            the outbound transport calls in the order they were issued,
\*                     each [kind, cause, target, message_id, text, ok]: kind is
\*                     "send" or "edit"; cause is "fire" for the send of a new
\*                     prediction and "resolution" for the call that answers a
\*                     verification result; message_id is the id returned by a
\*                     send (NoId when it failed) or the id an edit addresses;
\*   pending_messages  game number -> the text memorised while it was pending;
\*   inflight          request thread -> [pc, game, confidence]: where the thread
\*                     stands inside should_predict, and the locals it holds
\*                     there (pc "idle": not inside a call);
\*   draw_history      game number -> the text the handler recorded for it.
handler == <<outbox, pending_messages, inflight, draw_history>>

\* State of the polling loop:
\*   updates  the updates the transport holds, in arrival order; the update_id
\*            of an update is its position;
\*   offset   the loop's local offset;
\*   batch    the update_ids of the list being iterated that are still to come;
\*   calls    the update_ids process_update was called on, in call order.
poller == <<updates, offset, batch, calls>>

\* State of the JSON persistence:
\*   files    file name -> what the file holds ("missing", "garbage": not JSON,
\*            "badbytes": not decodable as text, "null": the JSON text null,
\*            "valid": what the predictor itself wrote);
\*   loaded   file name -> the value _load_data returned for it, for the files
\*            the constructor has loaded so far;
\*   ctor     "loading", "done", or "raised" when __init__ raised;
\*   writes   the last operation that saved: [attempts, returned], the files
\*            _save_data was called on, in order, and what the operation
\*            returned to its caller ("raised" when it did not return).
storage == <<files, loaded, ctor, writes>>

\* ---------------------------------------------------------------- helpers
Min(S) == CHOOSE x \in S : \A y \in S : x <= y
Max(S) == CHOOSE x \in S : \A y \in S : x >= y

RECURSIVE SortedSeq(_)
SortedSeq(S) == IF S = {} THEN << >> ELSE <<Min(S)>> \o SortedSeq(S \ {Min(S)})

Count(s, x) == Cardinality({i \in 1..Len(s) : s[i] = x})
Elems(s) == {s[i] : i \in 1..Len(s)}
Put(f, k, v) == [x \in (DOMAIN f) \cup {k} |-> IF x = k THEN v ELSE f[x]]
Drop(f, k) == [x \in (DOMAIN f) \ {k} |-> f[x]]

\* ----------------------------------------------------------------- parser
Upper(r) == IF r = "q" THEN "Q" ELSE IF r = "j" THEN "J" ELSE IF r = "k" THEN "K"
            ELSE IF r = "a" THEN "A" ELSE r

NormSuit(c) == IF c = "Hx" THEN "H" ELSE c

extract_game_number(m) == m.num

extract_total_points(m) == IF Text(m).T < 0 THEN NoPoints ELSE Text(m).T

\* None when there is no parenthesised group; the callers also treat the
\* empty (stripped) content as absent.
extract_first_parentheses_content(m) == IF Len(Text(m).g1) = 0 THEN None ELSE Text(m).g1

extract_card_details(content) ==
  [i \in 1..Len(content) |-> <<Upper(content[i][1]), NormSuit(content[i][2])>>]

CardValues(details) == [i \in 1..Len(details) |-> details[i][1]]

get_first_two_cards(content) ==
  LET d == extract_card_details(content)
  IN  SubSeq(d, 1, IF Len(d) < 2 THEN Len(d) ELSE 2)

check_value_Q_in_first_parentheses(m) ==
  LET c == extract_first_parentheses_content(m)
  IN  IF c = None THEN FALSE
      ELSE \E i \in 1..Len(c) : extract_card_details(c)[i][1] = "Q"

\* Variant of is_finalized677 that does not require a completion glyph.
is_finalized677_lax(m) == ~Text(m).pend

is_finalized677(m) == ~Text(m).pend /\ Text(m).done

has_pending_indicators(m) == Text(m).rx

hash(m) == <<m.num, m.tid>>

\* ------------------------------------------------- cooldown (both variants)
\* Variant of can_make_prediction677 without the cooldown comparison.
can_make_prediction677_always(lpt, t) == TRUE

can_make_prediction677(lpt, t) ==
  IF lpt = 0 THEN TRUE ELSE t > lpt + prediction_cooldown

can_make_prediction(lpt, t) ==
  IF lpt = 0 THEN TRUE ELSE t > lpt + prediction_cooldown

\* ------------------------------------------------------ learner (677)
count_absence_q677(hist, inter) ==
  IF Len(inter) = 0 THEN Cardinality(DOMAIN hist)
  ELSE LET last_q_game == Max({inter[i].numero_resultat : i \in 1..Len(inter)})
       IN  Cardinality({g \in DOMAIN hist : g > last_q_game})

\* Variant of collect_inter_data677 without the clean-up of old entries.
collect_inter_data677_keep(game_number, m, hist, inter) ==
  LET content == extract_first_parentheses_content(m)
  IN  IF content = None THEN [hist |-> hist, inter |-> inter]
      ELSE
        LET first_two == get_first_two_cards(content)
            h1 == IF Len(first_two) = 2 THEN Put(hist, game_number, first_two) ELSE hist
            q_found == check_value_Q_in_first_parentheses(m)
            n_minus_2_game == game_number - TargetDistance
            has_trigger == n_minus_2_game \in DOMAIN h1
            is_duplicate == \E i \in 1..Len(inter) : inter[i].numero_resultat = game_number
            i1 == IF q_found /\ has_trigger /\ ~is_duplicate
                  THEN Append(inter, [numero_resultat |-> game_number,
                                      declencheur |-> h1[n_minus_2_game],
                                      numero_declencheur |-> n_minus_2_game])
                  ELSE inter
        IN  [hist |-> h1, inter |-> i1]

\* Variant of collect_inter_data677 that takes the game before as the trigger.
collect_inter_data677_prev(game_number, m, hist, inter) ==
  LET content == extract_first_parentheses_content(m)
  IN  IF content = None THEN [hist |-> hist, inter |-> inter]
      ELSE
        LET first_two == get_first_two_cards(content)
            h1 == IF Len(first_two) = 2 THEN Put(hist, game_number, first_two) ELSE hist
            q_found == check_value_Q_in_first_parentheses(m)
            n_minus_2_game == game_number - 1
            has_trigger == n_minus_2_game \in DOMAIN h1
            is_duplicate == \E i \in 1..Len(inter) : inter[i].numero_resultat = game_number
            i1 == IF q_found /\ has_trigger /\ ~is_duplicate
                  THEN Append(inter, [numero_resultat |-> game_number,
                                      declencheur |-> h1[n_minus_2_game],
                                      numero_declencheur |-> n_minus_2_game])
                  ELSE inter
            obsolete_game_limit == game_number - HistoryWindow
        IN  [hist |-> [g \in {k \in DOMAIN h1 : k >= obsolete_game_limit} |-> h1[g]],
             inter |-> i1]

\* Returns the new [hist, inter] after collect_inter_data(game_number, message).
collect_inter_data677(game_number, m, hist, inter) ==
  LET content == extract_first_parentheses_content(m)
  IN  IF content = None THEN [hist |-> hist, inter |-> inter]
      ELSE
        LET first_two == get_first_two_cards(content)
            h1 == IF Len(first_two) = 2 THEN Put(hist, game_number, first_two) ELSE hist
            q_found == check_value_Q_in_first_parentheses(m)
            n_minus_2_game == game_number - TargetDistance
            has_trigger == n_minus_2_game \in DOMAIN h1
            is_duplicate == \E i \in 1..Len(inter) : inter[i].numero_resultat = game_number
            i1 == IF q_found /\ has_trigger /\ ~is_duplicate
                  THEN Append(inter, [numero_resultat |-> game_number,
                                      declencheur |-> h1[n_minus_2_game],
                                      numero_declencheur |-> n_minus_2_game])
                  ELSE inter
            obsolete_game_limit == game_number - HistoryWindow
        IN  [hist |-> [g \in {k \in DOMAIN h1 : k >= obsolete_game_limit} |-> h1[g]],
             inter |-> i1]

\* Distinct trigger pairs of inter_data in order of first appearance (dict order).
RECURSIVE DistinctKeys(_, _)
DistinctKeys(inter, acc) ==
  IF Len(inter) = 0 THEN acc
  ELSE DistinctKeys(Tail(inter),
                    IF Head(inter).declencheur \in Elems(acc) THEN acc
                    ELSE Append(acc, Head(inter).declencheur))

TriggerCount(inter, key) == Cardinality({i \in 1..Len(inter) : inter[i].declencheur = key})

\* Variant of SortByCountDesc that puts the latest of equal counts first.
RECURSIVE SortByCountDesc_unstable(_, _)
SortByCountDesc_unstable(keys, inter) ==
  IF Len(keys) = 0 THEN << >>
  ELSE LET best == Max({TriggerCount(inter, keys[i]) : i \in 1..Len(keys)})
           pos == Max({i \in 1..Len(keys) : TriggerCount(inter, keys[i]) = best})
           rest == [i \in 1..(Len(keys) - 1) |-> IF i < pos THEN keys[i] ELSE keys[i + 1]]
       IN  <<keys[pos]>> \o SortByCountDesc_unstable(rest, inter)

\* sorted(items, key=count, reverse=True): stable, so ties keep dict order.
RECURSIVE SortByCountDesc(_, _)
SortByCountDesc(keys, inter) ==
  IF Len(keys) = 0 THEN << >>
  ELSE LET best == Max({TriggerCount(inter, keys[i]) : i \in 1..Len(keys)})
           pos == Min({i \in 1..Len(keys) : TriggerCount(inter, keys[i]) = best})
           rest == [i \in 1..(Len(keys) - 1) |-> IF i < pos THEN keys[i] ELSE keys[i + 1]]
       IN  <<keys[pos]>> \o SortByCountDesc(rest, inter)

\* Returns [rules, active] after analyze_and_set_smart_rules(initial_load).
analyze_and_set_smart_rules677(inter, active, initial_load) ==
  LET sorted_declencheurs == SortByCountDesc(DistinctKeys(inter, << >>), inter)
      n == IF Len(sorted_declencheurs) < TopRules THEN Len(sorted_declencheurs) ELSE TopRules
      top_3 == [i \in 1..n |-> [cards |-> sorted_declencheurs[i],
                                count |-> TriggerCount(inter, sorted_declencheurs[i])]]
  IN  [rules |-> top_3,
       active |-> IF initial_load THEN active ELSE Len(top_3) > 0]

\* Variant of set_inter_mode677 that keeps the requested status whatever the
\* recomputed rule list holds.
set_inter_mode677_sticky(status, inter) ==
  IF status THEN [rules |-> analyze_and_set_smart_rules677(inter, status, FALSE).rules,
                  active |-> status]
  ELSE [rules |-> << >>, active |-> FALSE]

\* Returns [rules, active] after set_inter_mode(status).
set_inter_mode677(status, inter) ==
  IF status THEN analyze_and_set_smart_rules677(inter, status, FALSE)
  ELSE [rules |-> << >>, active |-> FALSE]

\* ------------------------------------------------ rendered texts (677)
confidence_tag(confidence) ==
  IF confidence = None \/ confidence = "" THEN << >> ELSE <<"(", confidence, ")">>

PredictionText677(target_game, symbol, confidence) ==
  <<"B", target_game, "B", ":Valeur Q statut :", symbol>> \o confidence_tag(confidence)

PredictionText(target_game, symbol) ==
  <<"B", target_game, "B", ":Valeur Q statut :", symbol>>

status_symbol_map == [k \in 0..LastOffset |-> <<"OK", k>>]

\* f'correct_offset_{verification_offset}'
correct_offset(k) ==
  <<"correct_offset_0", "correct_offset_1", "correct_offset_2", "correct_offset_3">>[k + 1]

\* --------------------------------------------------- prediction (677)
\* Variant of make_prediction677 that files the record under the trigger game.
make_prediction677_samegame(preds, game_number, confidence) ==
  Put(preds, game_number,
      [predicted_costume |-> "Q", status |-> "pending",
       predicted_from |-> game_number, verification_count |-> 0,
       message_text |-> PredictionText677(game_number, "WAIT", confidence),
       message_id |-> NoId, confidence |-> confidence])

\* Variant of make_prediction677 that files the record under the game after
\* the originating one.
make_prediction677_next(preds, game_number, confidence) ==
  LET target_game == game_number + 1
  IN  Put(preds, target_game,
          [predicted_costume |-> "Q", status |-> "pending",
           predicted_from |-> game_number, verification_count |-> 0,
           message_text |-> PredictionText677(target_game, "WAIT", confidence),
           message_id |-> NoId, confidence |-> confidence])

\* Returns the ledger after make_prediction(game_number, "Q", confidence).
make_prediction677(preds, game_number, confidence) ==
  LET target_game == game_number + TargetDistance
  IN  Put(preds, target_game,
          [predicted_costume |-> "Q", status |-> "pending",
           predicted_from |-> game_number, verification_count |-> 0,
           message_text |-> PredictionText677(target_game, "WAIT", confidence),
           message_id |-> NoId, confidence |-> confidence])

\* Variant of Cascade677 that tests the #T rule before the two J rules.
Cascade677_points_first(m, hist, inter, active, rules) ==
  LET game_number == extract_game_number(m)
      content == extract_first_parentheses_content(m)
      card_values == CardValues(extract_card_details(content))
      second_group_values == CardValues(extract_card_details(Text(m).g2))
      total_points == extract_total_points(m)
      set_8_9_10 == {"8", "9", "10"}
      r16 ==
        IF active /\ Len(rules) > 0
        THEN IF \E i \in 1..Len(rules) : rules[i].cards = get_first_two_cards(content)
             THEN "INTER" ELSE None
        ELSE IF total_points # NoPoints /\ total_points > PointsThreshold THEN "97%"
        ELSE IF Count(card_values, "J") = 1 /\ ~\E v \in Elems(card_values) : v \in {"A", "K", "Q"}
        THEN "98%"
        ELSE IF Count(card_values, "J") >= 2 THEN "57%"
        ELSE IF count_absence_q677(hist, inter) >= AbsenceThreshold THEN "60%"
        ELSE IF set_8_9_10 \subseteq Elems(card_values) \/ set_8_9_10 \subseteq Elems(second_group_values)
        THEN "70%"
        ELSE None
      has_k_j_g1 == "K" \in Elems(card_values) /\ "J" \in Elems(card_values)
      is_o_r_tag == Text(m).tag
      is_current_g1_weak == ~\E v \in Elems(card_values) : v \in HIGH_VALUE_CARDS
      has_previous == (game_number - 1) \in DOMAIN hist
      is_prev_g1_weak ==
        IF is_current_g1_weak /\ has_previous
        THEN ~\E c \in Elems(hist[game_number - 1]) : c[1] \in HIGH_VALUE_CARDS
        ELSE FALSE
  IN  IF r16 # None THEN r16
      ELSE IF has_k_j_g1 \/ is_o_r_tag \/ (is_current_g1_weak /\ is_prev_g1_weak) THEN "70%"
      ELSE None

\* Variant of Cascade677 whose double-weak branch does not look at game N-1.
Cascade677_no_prev(m, hist, inter, active, rules) ==
  LET game_number == extract_game_number(m)
      content == extract_first_parentheses_content(m)
      card_values == CardValues(extract_card_details(content))
      second_group_values == CardValues(extract_card_details(Text(m).g2))
      total_points == extract_total_points(m)
      set_8_9_10 == {"8", "9", "10"}
      r16 ==
        IF active /\ Len(rules) > 0
        THEN IF \E i \in 1..Len(rules) : rules[i].cards = get_first_two_cards(content)
             THEN "INTER" ELSE None
        ELSE IF Count(card_values, "J") = 1 /\ ~\E v \in Elems(card_values) : v \in {"A", "K", "Q"}
        THEN "98%"
        ELSE IF Count(card_values, "J") >= 2 THEN "57%"
        ELSE IF total_points # NoPoints /\ total_points > PointsThreshold THEN "97%"
        ELSE IF count_absence_q677(hist, inter) >= AbsenceThreshold THEN "60%"
        ELSE IF set_8_9_10 \subseteq Elems(card_values) \/ set_8_9_10 \subseteq Elems(second_group_values)
        THEN "70%"
        ELSE None
      has_k_j_g1 == "K" \in Elems(card_values) /\ "J" \in Elems(card_values)
      is_o_r_tag == Text(m).tag
      is_current_g1_weak == ~\E v \in Elems(card_values) : v \in HIGH_VALUE_CARDS
      has_previous == (game_number - 1) \in DOMAIN hist
      is_prev_g1_weak == is_current_g1_weak
  IN  IF r16 # None THEN r16
      ELSE IF has_k_j_g1 \/ is_o_r_tag \/ (is_current_g1_weak /\ is_prev_g1_weak) THEN "70%"
      ELSE None

\* Variant of Cascade677 whose learned-trigger test ignores the order of the pair.
Cascade677_unordered(m, hist, inter, active, rules) ==
  LET game_number == extract_game_number(m)
      content == extract_first_parentheses_content(m)
      card_values == CardValues(extract_card_details(content))
      second_group_values == CardValues(extract_card_details(Text(m).g2))
      total_points == extract_total_points(m)
      set_8_9_10 == {"8", "9", "10"}
      r16 ==
        IF active /\ Len(rules) > 0
        THEN IF \E i \in 1..Len(rules) : Elems(rules[i].cards) = Elems(get_first_two_cards(content))
             THEN "INTER" ELSE None
        ELSE IF Count(card_values, "J") = 1 /\ ~\E v \in Elems(card_values) : v \in {"A", "K", "Q"}
        THEN "98%"
        ELSE IF Count(card_values, "J") >= 2 THEN "57%"
        ELSE IF total_points # NoPoints /\ total_points > PointsThreshold THEN "97%"
        ELSE IF count_absence_q677(hist, inter) >= AbsenceThreshold THEN "60%"
        ELSE IF set_8_9_10 \subseteq Elems(card_values) \/ set_8_9_10 \subseteq Elems(second_group_values)
        THEN "70%"
        ELSE None
      has_k_j_g1 == "K" \in Elems(card_values) /\ "J" \in Elems(card_values)
      is_o_r_tag == Text(m).tag
      is_current_g1_weak == ~\E v \in Elems(card_values) : v \in HIGH_VALUE_CARDS
      has_previous == (game_number - 1) \in DOMAIN hist
      is_prev_g1_weak ==
        IF is_current_g1_weak /\ has_previous
        THEN ~\E c \in Elems(hist[game_number - 1]) : c[1] \in HIGH_VALUE_CARDS
        ELSE FALSE
  IN  IF r16 # None THEN r16
      ELSE IF has_k_j_g1 \/ is_o_r_tag \/ (is_current_g1_weak /\ is_prev_g1_weak) THEN "70%"
      ELSE None

\* The label chosen by the if/elif cascade of rules 1-6 and the block 7-8
\* (the local `confidence` at line 395), None when no rule matched.
Cascade677(m, hist, inter, active, rules) ==
  LET game_number == extract_game_number(m)
      content == extract_first_parentheses_content(m)
      card_values == CardValues(extract_card_details(content))
      second_group_values == CardValues(extract_card_details(Text(m).g2))
      total_points == extract_total_points(m)
      set_8_9_10 == {"8", "9", "10"}
      r16 ==
        IF active /\ Len(rules) > 0
        THEN IF \E i \in 1..Len(rules) : rules[i].cards = get_first_two_cards(content)
             THEN "INTER" ELSE None
        ELSE IF Count(card_values, "J") = 1 /\ ~\E v \in Elems(card_values) : v \in {"A", "K", "Q"}
        THEN "98%"
        ELSE IF Count(card_values, "J") >= 2 THEN "57%"
        ELSE IF total_points # NoPoints /\ total_points > PointsThreshold THEN "97%"
        ELSE IF count_absence_q677(hist, inter) >= AbsenceThreshold THEN "60%"
        ELSE IF set_8_9_10 \subseteq Elems(card_values) \/ set_8_9_10 \subseteq Elems(second_group_values)
        THEN "70%"
        ELSE None
      has_k_j_g1 == "K" \in Elems(card_values) /\ "J" \in Elems(card_values)
      is_o_r_tag == Text(m).tag
      is_current_g1_weak == ~\E v \in Elems(card_values) : v \in HIGH_VALUE_CARDS
      has_previous == (game_number - 1) \in DOMAIN hist
      is_prev_g1_weak ==
        IF is_current_g1_weak /\ has_previous
        THEN ~\E c \in Elems(hist[game_number - 1]) : c[1] \in HIGH_VALUE_CARDS
        ELSE FALSE
  IN  IF r16 # None THEN r16
      ELSE IF has_k_j_g1 \/ is_o_r_tag \/ (is_current_g1_weak /\ is_prev_g1_weak) THEN "70%"
      ELSE None

\* Variant of q_already_present677 that never vetoes.
q_already_present677_never(card_values) == FALSE

\* if "Q" in card_values: return False
q_already_present677(card_values) == "Q" \in Elems(card_values)

\* Variant of not_processed677 that ignores the processed set.
not_processed677_always(game_number, processed) == TRUE

\* if game_number not in self.processed_messages
not_processed677(game_number, processed) == game_number \notin processed

NoFire(h, i, conf) ==
  [fire |-> FALSE, game |-> NoGame, value |-> None, text |-> << >>, confidence |-> conf,
   hist |-> h, inter |-> i, processed |-> processed_messages,
   lpt |-> last_prediction_time, preds |-> predictions]

\* Variant of should_predict677 that marks the game processed before the
\* cooldown test.
should_predict677_eager(m, t) ==
  LET game_number == extract_game_number(m)
  IN  IF game_number = NoGame THEN NoFire(sequential_history, inter_data, None)
      ELSE
        LET c == collect_inter_data677(game_number, m, sequential_history, inter_data)
        IN  IF ~is_finalized677(m) THEN NoFire(c.hist, c.inter, None)
            ELSE IF extract_first_parentheses_content(m) = None THEN NoFire(c.hist, c.inter, None)
            ELSE
              LET confidence == Cascade677(m, c.hist, c.inter, is_inter_mode_active, smart_rules)
                  card_values == CardValues(extract_card_details(extract_first_parentheses_content(m)))
              IN  IF q_already_present677(card_values) THEN NoFire(c.hist, c.inter, confidence)
                  ELSE IF confidence # None /\ ~can_make_prediction677(last_prediction_time, t)
                  THEN [NoFire(c.hist, c.inter, confidence) EXCEPT
                          !.processed = processed_messages \cup {game_number}]
                  ELSE IF confidence # None /\ not_processed677(game_number, processed_messages)
                  THEN [fire |-> TRUE, game |-> game_number, value |-> "Q",
                        text |-> PredictionText677(game_number + TargetDistance, "WAIT", confidence),
                        confidence |-> confidence,
                        hist |-> c.hist, inter |-> c.inter,
                        processed |-> processed_messages \cup {game_number},
                        lpt |-> t,
                        preds |-> make_prediction677(predictions, game_number, confidence)]
                  ELSE NoFire(c.hist, c.inter, confidence)

\* should_predict(message) of the 8-rule predictor, evaluated at time t:
\* the returned tuple and the engine state it leaves behind.
should_predict677(m, t) ==
  LET game_number == extract_game_number(m)
  IN  IF game_number = NoGame THEN NoFire(sequential_history, inter_data, None)
      ELSE
        LET c == collect_inter_data677(game_number, m, sequential_history, inter_data)
        IN  IF ~is_finalized677(m) THEN NoFire(c.hist, c.inter, None)
            ELSE IF extract_first_parentheses_content(m) = None THEN NoFire(c.hist, c.inter, None)
            ELSE
              LET confidence == Cascade677(m, c.hist, c.inter, is_inter_mode_active, smart_rules)
                  card_values == CardValues(extract_card_details(extract_first_parentheses_content(m)))
              IN  IF q_already_present677(card_values) THEN NoFire(c.hist, c.inter, confidence)
                  ELSE IF confidence # None /\ ~can_make_prediction677(last_prediction_time, t)
                  THEN NoFire(c.hist, c.inter, confidence)
                  ELSE IF confidence # None /\ not_processed677(game_number, processed_messages)
                  THEN [fire |-> TRUE, game |-> game_number, value |-> "Q",
                        text |-> PredictionText677(game_number + TargetDistance, "WAIT", confidence),
                        confidence |-> confidence,
                        hist |-> c.hist, inter |-> c.inter,
                        processed |-> processed_messages \cup {game_number},
                        lpt |-> t,
                        preds |-> make_prediction677(predictions, game_number, confidence)]
                  ELSE NoFire(c.hist, c.inter, confidence)

\* ------------------------------------------------ verification (677)
RECURSIVE SortedSeqDesc(_)
SortedSeqDesc(S) == IF S = {} THEN << >> ELSE <<Max(S)>> \o SortedSeqDesc(S \ {Max(S)})

\* Variant of verification_order677 that visits the newest target first.
verification_order677_desc(preds) == SortedSeqDesc(DOMAIN preds)

\* sorted(self.predictions.keys())
verification_order677(preds) == SortedSeq(DOMAIN preds)

\* Variant of in_window677 with the window cut to offsets 0..1.
in_window677_short(verification_offset) ==
  0 <= verification_offset /\ verification_offset <= LastOffset - 1

\* 0 <= verification_offset <= 2
in_window677(verification_offset) ==
  0 <= verification_offset /\ verification_offset <= LastOffset

\* Variant of is_last_chance677 that never gives up on a record.
is_last_chance677_never(verification_offset) == FALSE

\* Variant of is_last_chance677 that gives up one offset early.
is_last_chance677_early(verification_offset) == verification_offset >= LastOffset - 1

\* elif verification_offset == 2 and not q_found
is_last_chance677(verification_offset) == verification_offset = LastOffset

\* Variant of pop_prediction677 that leaves the record in the ledger.
pop_prediction677_keep(preds, predicted_game) == preds

\* self.predictions.pop(predicted_game, None)
pop_prediction677(preds, predicted_game) == Drop(preds, predicted_game)

NoResolution(preds) == [preds |-> preds, ret |-> [type |-> "none"], prediction |-> [status |-> "none"]]

\* The for-loop of verify over sorted(self.predictions.keys()); q_found is
\* check_value_Q_in_first_parentheses(text), game_number the message's number.
RECURSIVE VerifyLoop677(_, _, _, _)
VerifyLoop677(keys, game_number, q_found, preds) ==
  IF Len(keys) = 0 THEN NoResolution(preds)
  ELSE
    LET predicted_game == Head(keys)
        prediction == preds[predicted_game]
        verification_offset == game_number - predicted_game
    IN  IF prediction.status # "pending" \/ prediction.predicted_costume # "Q"
        THEN VerifyLoop677(Tail(keys), game_number, q_found, preds)
        ELSE IF in_window677(verification_offset)
        THEN IF q_found
             THEN LET updated_message ==
                        PredictionText677(predicted_game, status_symbol_map[verification_offset],
                                          prediction.confidence)
                  IN  [preds |-> pop_prediction677(preds, predicted_game),
                       ret |-> [type |-> "edit_message", predicted_game |-> predicted_game,
                                message_id |-> prediction.message_id,
                                new_message |-> updated_message],
                       prediction |-> Put([prediction EXCEPT
                                             !.status = correct_offset(verification_offset),
                                             !.verification_count = verification_offset],
                                          "final_message", updated_message)]
             ELSE IF is_last_chance677(verification_offset)
             THEN LET updated_message ==
                        PredictionText677(predicted_game, "FAIL", prediction.confidence)
                  IN  [preds |-> pop_prediction677(preds, predicted_game),
                       ret |-> [type |-> "edit_message", predicted_game |-> predicted_game,
                                message_id |-> prediction.message_id,
                                new_message |-> updated_message],
                       prediction |-> Put([prediction EXCEPT !.status = "failed"],
                                          "final_message", updated_message)]
             ELSE VerifyLoop677(Tail(keys), game_number, q_found, preds)
        ELSE VerifyLoop677(Tail(keys), game_number, q_found, preds)

\* Variant of verify677 that passes over the records labelled INTER.
verify677_unlabelled(m, preds) ==
  LET game_number == extract_game_number(m)
      keys == verification_order677(preds)
  IN  IF game_number = NoGame \/ DOMAIN preds = {} THEN NoResolution(preds)
      ELSE IF ~is_finalized677(m) THEN NoResolution(preds)
      ELSE VerifyLoop677(SelectSeq(keys, LAMBDA k : preds[k].confidence # "INTER"), game_number,
                         check_value_Q_in_first_parentheses(m), preds)

\* verify(text) of the 8-rule predictor: [preds, ret, prediction].
verify677(m, preds) ==
  LET game_number == extract_game_number(m)
  IN  IF game_number = NoGame \/ DOMAIN preds = {} THEN NoResolution(preds)
      ELSE IF ~is_finalized677(m) THEN NoResolution(preds)
      ELSE VerifyLoop677(verification_order677(preds), game_number,
                         check_value_Q_in_first_parentheses(m), preds)

\* ------------------------------------------- the ledger across a restart
\* A ledger as Python holds it: the records by target game, and the type of
\* the dict keys, "int" for the keys make_prediction writes (game_number + 2)
\* and "str" for their decimal strings.
InMemory(preds) == [key_type |-> "int", records |-> preds]

\* json.dump(out, f) in _save_data: the keys of a JSON object are strings.
json_dump_keys(key_type) == "str"

\* json.load(f) in _load_data, then the branch for the file: only
\* is_sequential_history converts the keys back (int(k)); predictions.json is
\* loaded with no flag and takes `return data`.
load_keys677(file, key_type) ==
  IF file = "sequential_history.json" THEN "int" ELSE key_type

\* _save_all_data, then a new CardPredictor: self.predictions as __init__
\* loads it from predictions.json.
restart677(ledger) ==
  [key_type |-> load_keys677("predictions.json", json_dump_keys(ledger.key_type)),
   records |-> ledger.records]

\* verify(text) on a ledger: with integer keys it is verify677; with string
\* keys the subtraction game_number - predicted_game raises TypeError for the
\* first pending record the loop meets.
verify_loaded677(m, ledger) ==
  IF ledger.key_type = "int"
  THEN [raised |-> "no", result |-> verify677(m, ledger.records)]
  ELSE IF extract_game_number(m) = NoGame \/ DOMAIN ledger.records = {}
  THEN [raised |-> "no", result |-> NoResolution(ledger.records)]
  ELSE IF ~is_finalized677(m)
  THEN [raised |-> "no", result |-> NoResolution(ledger.records)]
  ELSE IF \E t \in DOMAIN ledger.records :
            /\ ledger.records[t].status = "pending"
            /\ ledger.records[t].predicted_costume = "Q"
  THEN [raised |-> "TypeError", result |-> NoResolution(ledger.records)]
  ELSE [raised |-> "no", result |-> NoResolution(ledger.records)]

\* ------------------------------------------- simple predictor (card_predictor.py)
collect_inter_data(game_number, m, hist, inter) ==
  LET content == extract_first_parentheses_content(m)
  IN  IF content = None THEN [hist |-> hist, inter |-> inter]
      ELSE
        LET first_two == get_first_two_cards(content)
            h1 == IF Len(first_two) = 2 THEN Put(hist, game_number, first_two) ELSE hist
            q_card_details == check_value_Q_in_first_parentheses(m)
            n_minus_2_game == game_number - TargetDistance
            has_trigger == n_minus_2_game \in DOMAIN h1
            i1 == IF q_card_details /\ has_trigger
                  THEN Append(inter, [numero_resultat |-> game_number,
                                      declencheur |-> h1[n_minus_2_game],
                                      numero_declencheur |-> n_minus_2_game])
                  ELSE inter
            obsolete_game_limit == game_number - HistoryWindow
        IN  [hist |-> [g \in {k \in DOMAIN h1 : k >= obsolete_game_limit} |-> h1[g]],
             inter |-> i1]

\* analyze_and_set_smart_rules(initial_load) of the simple predictor:
\* [rules, active].
analyze_and_set_smart_rules(inter, active, initial_load) ==
  LET sorted_declencheurs == SortByCountDesc(DistinctKeys(inter, << >>), inter)
      n == IF Len(sorted_declencheurs) < TopRules THEN Len(sorted_declencheurs) ELSE TopRules
      top_3 == [i \in 1..n |-> [cards |-> sorted_declencheurs[i],
                                count |-> TriggerCount(inter, sorted_declencheurs[i])]]
  IN  [rules |-> top_3,
       active |-> IF Len(top_3) > 0 THEN TRUE
                  ELSE IF ~initial_load THEN FALSE ELSE active]

\* The value chosen by the INTER rule and the two static rules, None otherwise.
Cascade(m, active, rules) ==
  LET content == extract_first_parentheses_content(m)
  IN  IF content = None THEN None
      ELSE
        LET card_values == CardValues(extract_card_details(content))
            second_group_values == CardValues(extract_card_details(Text(m).g2))
            has_high_value_in_second == \E v \in Elems(second_group_values) : v \in HIGH_VALUE_CARDS
        IN  IF active /\ Len(rules) > 0
               /\ \E i \in 1..Len(rules) : rules[i].cards = get_first_two_cards(content)
            THEN "Q"
            ELSE IF Count(card_values, "J") >= 2 THEN "Q"
            ELSE IF Count(card_values, "J") = 1 /\ ~has_high_value_in_second THEN "Q"
            ELSE None

\* message_hash = hash(message); if message_hash not in self.processed_messages
not_processed(m, processed) == hash(m) \notin processed

NoFireSimple(h, i) ==
  [fire |-> FALSE, game |-> NoGame, value |-> None,
   hist |-> h, inter |-> i, processed |-> processed_messages,
   lpt |-> last_prediction_time]

\* should_predict(message) of the simple predictor, evaluated at time t.
should_predict(m, t) ==
  IF target_channel_id = NoChat THEN NoFireSimple(sequential_history, inter_data)
  ELSE
    LET game_number == extract_game_number(m)
    IN  IF game_number = NoGame THEN NoFireSimple(sequential_history, inter_data)
        ELSE
          LET c == collect_inter_data(game_number, m, sequential_history, inter_data)
              predicted_value == Cascade(m, is_inter_mode_active, smart_rules)
          IN  IF has_pending_indicators(m) THEN NoFireSimple(c.hist, c.inter)
              ELSE IF predicted_value # None /\ ~can_make_prediction(last_prediction_time, t)
              THEN NoFireSimple(c.hist, c.inter)
              ELSE IF predicted_value # None /\ not_processed(m, processed_messages)
              THEN [fire |-> TRUE, game |-> game_number, value |-> predicted_value,
                    hist |-> c.hist, inter |-> c.inter,
                    processed |-> processed_messages \cup {hash(m)},
                    lpt |-> t]
              ELSE NoFireSimple(c.hist, c.inter)

make_prediction(preds, game_number) ==
  LET target_game == game_number + TargetDistance
  IN  Put(preds, target_game,
          [predicted_costume |-> "Q", status |-> "pending",
           predicted_from |-> game_number, verification_count |-> 0,
           message_text |-> PredictionText(target_game, "WAIT"),
           message_id |-> NoId])

\* 0 <= verification_offset <= 2
in_window(verification_offset) ==
  0 <= verification_offset /\ verification_offset <= LastOffset

\* elif verification_offset == 2 and not q_found
is_last_chance(verification_offset) == verification_offset = LastOffset

RECURSIVE VerifyLoop(_, _, _, _)
VerifyLoop(keys, game_number, q_found, preds) ==
  IF Len(keys) = 0 THEN NoResolution(preds)
  ELSE
    LET predicted_game == Head(keys)
        prediction == preds[predicted_game]
        verification_offset == game_number - predicted_game
    IN  IF prediction.status # "pending" \/ prediction.predicted_costume # "Q"
        THEN VerifyLoop(Tail(keys), game_number, q_found, preds)
        ELSE IF in_window(verification_offset)
        THEN IF q_found
             THEN LET updated_message ==
                        PredictionText(predicted_game, status_symbol_map[verification_offset])
                      updated == Put([prediction EXCEPT
                                         !.status = correct_offset(verification_offset),
                                         !.verification_count = verification_offset],
                                      "final_message", updated_message)
                  IN  [preds |-> Put(preds, predicted_game, updated),
                       ret |-> [type |-> "edit_message", predicted_game |-> predicted_game,
                                new_message |-> updated_message],
                       prediction |-> updated]
             ELSE IF is_last_chance(verification_offset)
             THEN LET updated_message == PredictionText(predicted_game, "FAIL")
                      updated == Put([prediction EXCEPT !.status = "failed"],
                                      "final_message", updated_message)
                  IN  [preds |-> Put(preds, predicted_game, updated),
                       ret |-> [type |-> "edit_message", predicted_game |-> predicted_game,
                                new_message |-> updated_message],
                       prediction |-> updated]
             ELSE VerifyLoop(Tail(keys), game_number, q_found, preds)
        ELSE VerifyLoop(Tail(keys), game_number, q_found, preds)

\* _verify_prediction_common(text) of the simple predictor: [preds, ret, prediction].
verify_prediction_common(m, preds) ==
  LET game_number == extract_game_number(m)
  IN  IF game_number = NoGame \/ DOMAIN preds = {} THEN NoResolution(preds)
      ELSE VerifyLoop(SortedSeq(DOMAIN preds), game_number,
                      check_value_Q_in_first_parentheses(m), preds)

\* ------------------------------------------------------------------ Init
Init ==
  /\ variant \in {"677", "simple"}
  /\ now = StartTime
  /\ predictions = << >>
  /\ processed_messages = {}
  /\ last_prediction_time = 0
  /\ sequential_history = << >>
  /\ inter_data = << >>
  /\ is_inter_mode_active = FALSE
  /\ smart_rules = << >>
  /\ target_channel_id = NoChat
  /\ nops = 0
  /\ fires = << >>
  /\ resolved = << >>
  /\ misses = {}
  /\ suppressed = {}
  /\ outbox = << >>
  /\ pending_messages = << >>
  /\ inflight = [th \in Threads |-> Idle]
  /\ draw_history = << >>
  /\ updates = << >>
  /\ offset = 0
  /\ batch = << >>
  /\ calls = << >>
  /\ files = [f \in FileNames |-> "valid"]
  /\ loaded = << >>
  /\ ctor = "done"
  /\ writes = NoSave

\* ------------------------------------------------- history bookkeeping
Resolve(res, r, m) ==
  IF r.ret.type = "none" THEN res
  ELSE LET t == r.ret.predicted_game
           e == [status |-> r.prediction.status, game |-> m.num]
       IN  Put(res, t, IF t \in DOMAIN res THEN Append(res[t], e) ELSE <<e>>)

Miss(mis, r, m, ran) ==
  IF ~ran \/ check_value_Q_in_first_parentheses(m) THEN mis
  ELSE mis \cup {<<t, m.num - t>> : t \in {x \in DOMAIN r.preds :
                   /\ r.preds[x].status = "pending"
                   /\ 0 <= m.num - x /\ m.num - x <= LastOffset}}

\* should_predict of the 8-rule predictor, with outcome r at time t, returned
\* at `if predicted_value and not self.can_make_prediction()`.
Suppress677(sup, m, r, t) ==
  IF /\ r.confidence # None
     /\ ~r.fire
     /\ ~q_already_present677(
           CardValues(extract_card_details(extract_first_parentheses_content(m))))
     /\ ~can_make_prediction677(last_prediction_time, t)
  THEN sup \cup {<<extract_game_number(m), t>>}
  ELSE sup

\* The same for the simple predictor.
SuppressSimple(sup, m, t) ==
  IF /\ target_channel_id # NoChat
     /\ extract_game_number(m) # NoGame
     /\ ~has_pending_indicators(m)
     /\ Cascade(m, is_inter_mode_active, smart_rules) # None
     /\ ~can_make_prediction(last_prediction_time, t)
  THEN sup \cup {<<extract_game_number(m), t>>}
  ELSE sup

\* --------------------------------------------------------------- actions
\* time.time() advances between two inbound events.
Tick ==
  /\ now + TickStep <= StartTime + MaxTicks * TickStep
  /\ now' = now + TickStep
  /\ UNCHANGED handler
  /\ UNCHANGED poller
  /\ UNCHANGED storage
  /\ UNCHANGED <<variant, engine, nops, history>>

ShouldPredict677(m) ==
  /\ variant = "677"
  /\ nops < MaxOps
  /\ LET r == should_predict677(m, now)
     IN  /\ sequential_history' = r.hist
         /\ inter_data' = r.inter
         /\ processed_messages' = r.processed
         /\ last_prediction_time' = r.lpt
         /\ predictions' = r.preds
         /\ fires' = IF r.fire THEN Append(fires, [game |-> r.game, time |-> now]) ELSE fires
         /\ suppressed' = Suppress677(suppressed, m, r, now)
  /\ nops' = nops + 1
  /\ UNCHANGED handler
  /\ UNCHANGED poller
  /\ UNCHANGED storage
  /\ UNCHANGED <<variant, now, is_inter_mode_active, smart_rules, target_channel_id,
                 resolved, misses>>

Verify677(m) ==
  /\ variant = "677"
  /\ nops < MaxOps
  /\ LET r == verify677(m, predictions)
     IN  /\ predictions' = r.preds
         /\ resolved' = Resolve(resolved, r, m)
         /\ misses' = Miss(misses, r, m, is_finalized677(m))
  /\ nops' = nops + 1
  /\ UNCHANGED handler
  /\ UNCHANGED poller
  /\ UNCHANGED storage
  /\ UNCHANGED <<variant, now, processed_messages, last_prediction_time, sequential_history,
                 inter_data, is_inter_mode_active, smart_rules, target_channel_id,
                 fires, suppressed>>

SetInterMode677(status) ==
  /\ variant = "677"
  /\ nops < MaxOps
  /\ LET r == set_inter_mode677(status, inter_data)
     IN  /\ smart_rules' = r.rules
         /\ is_inter_mode_active' = r.active
  /\ nops' = nops + 1
  /\ UNCHANGED handler
  /\ UNCHANGED poller
  /\ UNCHANGED storage
  /\ UNCHANGED <<variant, now, predictions, processed_messages, last_prediction_time,
                 sequential_history, inter_data, target_channel_id, history>>

\* set_channel_id(channel_id, 'source') of the simple predictor.
SetChannelId ==
  /\ variant = "simple"
  /\ target_channel_id' = SourceChat
  /\ UNCHANGED handler
  /\ UNCHANGED poller
  /\ UNCHANGED storage
  /\ UNCHANGED <<variant, now, predictions, processed_messages, last_prediction_time,
                 sequential_history, inter_data, is_inter_mode_active, smart_rules,
                 nops, history>>

\* The caller's sequence for the simple predictor: should_predict, then
\* make_prediction when it fired.
Predict(m) ==
  /\ variant = "simple"
  /\ nops < MaxOps
  /\ LET r == should_predict(m, now)
     IN  /\ sequential_history' = r.hist
         /\ inter_data' = r.inter
         /\ processed_messages' = r.processed
         /\ last_prediction_time' = r.lpt
         /\ predictions' = IF r.fire THEN make_prediction(predictions, r.game) ELSE predictions
         /\ fires' = IF r.fire THEN Append(fires, [game |-> r.game, time |-> now]) ELSE fires
         /\ suppressed' = SuppressSimple(suppressed, m, now)
  /\ nops' = nops + 1
  /\ UNCHANGED handler
  /\ UNCHANGED poller
  /\ UNCHANGED storage
  /\ UNCHANGED <<variant, now, is_inter_mode_active, smart_rules, target_channel_id,
                 resolved, misses>>

Verify(m) ==
  /\ variant = "simple"
  /\ nops < MaxOps
  /\ LET r == verify_prediction_common(m, predictions)
     IN  /\ predictions' = r.preds
         /\ resolved' = Resolve(resolved, r, m)
         /\ misses' = Miss(misses, r, m, TRUE)
  /\ nops' = nops + 1
  /\ UNCHANGED handler
  /\ UNCHANGED poller
  /\ UNCHANGED storage
  /\ UNCHANGED <<variant, now, processed_messages, last_prediction_time, sequential_history,
                 inter_data, is_inter_mode_active, smart_rules, target_channel_id,
                 fires, suppressed>>

Next677 ==
  \/ Tick
  \/ \E m \in Msgs : ShouldPredict677(m)
  \/ \E m \in Msgs : Verify677(m)
  \/ \E status \in BOOLEAN : SetInterMode677(status)

NextSimple ==
  \/ Tick
  \/ SetChannelId
  \/ \E m \in Msgs : Predict(m)
  \/ \E m \in Msgs : Verify(m)

Next == Next677 \/ NextSimple

\* Both predictors, one engine instance per behaviour.
Spec == Init /\ [][Next]_vars

\* The 8-rule predictor alone.
Init677 == Init /\ variant = "677"

Spec677 == Init677 /\ [][Next677]_vars

\* The simple predictor alone.
InitSimple == Init /\ variant = "simple"

SpecSimple == InitSimple /\ [][NextSimple]_vars

\* ------------------------------------------- behaviours across the window
\* Game numbers on both sides of the retention window: the games 1..MaxEarly
\* and the games HistoryWindow+1 .. HistoryWindow+MaxLate.
WideGames == (1..MaxEarly) \cup {HistoryWindow + k : k \in 1..MaxLate}
WideMsgs == [num : WideGames, tid : {"J5", "N75"}]

NextWindow ==
  \/ Tick
  \/ SetChannelId
  \/ \E m \in WideMsgs : ShouldPredict677(m)
  \/ \E m \in WideMsgs : Predict(m)

SpecWindow == Init /\ [][NextWindow]_vars

\* ------------------------------------------------- behaviours of the learner
\* The trigger pairs found in a loaded inter_data.json.
TriggerPairs ==
  { << <<"J","S">>, <<"5","D">> >>, << <<"7","S">>, <<"5","D">> >>,
    << <<"A","S">>, <<"5","D">> >>, << <<"K","S">>, <<"J","D">> >> }

\* inter_data as loaded at construction: up to MaxInter entries, one per
\* resolved game, each with one of the trigger pairs.
InterSamples ==
  { [i \in 1..Len(f) |-> [numero_resultat |-> i + TargetDistance,
                          declencheur |-> f[i],
                          numero_declencheur |-> i]] :
      f \in UNION {[1..n -> TriggerPairs] : n \in 0..MaxInter} }

InitLearner ==
  /\ variant \in {"677", "simple"}
  /\ now = StartTime
  /\ predictions = << >>
  /\ processed_messages = {}
  /\ last_prediction_time = 0
  /\ sequential_history = << >>
  /\ inter_data \in InterSamples
  /\ is_inter_mode_active = FALSE
  /\ smart_rules = << >>
  /\ target_channel_id = NoChat
  /\ nops = 0
  /\ fires = << >>
  /\ resolved = << >>
  /\ misses = {}
  /\ suppressed = {}
  /\ outbox = << >>
  /\ pending_messages = << >>
  /\ inflight = [th \in Threads |-> Idle]
  /\ draw_history = << >>
  /\ updates = << >>
  /\ offset = 0
  /\ batch = << >>
  /\ calls = << >>
  /\ files = [f \in FileNames |-> "valid"]
  /\ loaded = << >>
  /\ ctor = "done"
  /\ writes = NoSave

\* analyze_and_set_smart_rules() of the simple predictor.
AnalyzeSmartRules ==
  /\ variant = "simple"
  /\ nops < MaxOps
  /\ LET r == analyze_and_set_smart_rules(inter_data, is_inter_mode_active, FALSE)
     IN  /\ smart_rules' = r.rules
         /\ is_inter_mode_active' = r.active
  /\ nops' = nops + 1
  /\ UNCHANGED handler
  /\ UNCHANGED poller
  /\ UNCHANGED storage
  /\ UNCHANGED <<variant, now, predictions, processed_messages, last_prediction_time,
                 sequential_history, inter_data, target_channel_id, history>>

NextLearner ==
  \/ \E status \in BOOLEAN : SetInterMode677(status)
  \/ AnalyzeSmartRules

SpecLearner == InitLearner /\ [][NextLearner]_vars

\* ------------------------------------- the learner from the default state
\* analyze_and_set_smart_rules(initial_load) of the running predictor.
Analyze(initial_load) ==
  /\ nops < MaxOps
  /\ LET r == IF variant = "677"
              THEN analyze_and_set_smart_rules677(inter_data, is_inter_mode_active, initial_load)
              ELSE analyze_and_set_smart_rules(inter_data, is_inter_mode_active, initial_load)
     IN  /\ smart_rules' = r.rules
         /\ is_inter_mode_active' = r.active
  /\ nops' = nops + 1
  /\ UNCHANGED handler
  /\ UNCHANGED poller
  /\ UNCHANGED storage
  /\ UNCHANGED <<variant, now, predictions, processed_messages, last_prediction_time,
                 sequential_history, inter_data, target_channel_id, history>>

\* collect_inter_data(game_number, message) of the running predictor, called
\* on its own.
CollectInterData(m) ==
  /\ nops < MaxOps
  /\ LET c == IF variant = "677"
              THEN collect_inter_data677(m.num, m, sequential_history, inter_data)
              ELSE collect_inter_data(m.num, m, sequential_history, inter_data)
     IN  /\ sequential_history' = c.hist
         /\ inter_data' = c.inter
  /\ nops' = nops + 1
  /\ UNCHANGED handler
  /\ UNCHANGED poller
  /\ UNCHANGED storage
  /\ UNCHANGED <<variant, now, predictions, processed_messages, last_prediction_time,
                 is_inter_mode_active, smart_rules, target_channel_id, history>>

NextRules ==
  \/ Tick
  \/ SetChannelId
  \/ \E m \in Msgs : ShouldPredict677(m)
  \/ \E m \in Msgs : Predict(m)
  \/ \E m \in Msgs : CollectInterData(m)
  \/ \E initial_load \in BOOLEAN : Analyze(initial_load)
  \/ \E status \in BOOLEAN : SetInterMode677(status)

\* Both predictors from the empty default state, with every operation that
\* writes the learner's data.
SpecRules == Init /\ [][NextRules]_vars

\* ------------------------------------------------ update handler (handlers.py)
\* process_update reaches the predictor through the module-level object
\* card_predictor.  The four operators below are that object's entry points as
\* the handler calls them; each hands over to the predictor selected by variant.

\* card_predictor.is_pending_message(text): the pending glyph is in the text.
is_pending_message(m) == Text(m).pend

\* card_predictor.verify_prediction(text, message_id): [preds, ret, prediction].
verify_prediction(m, preds) ==
  IF variant = "677" THEN verify677(m, preds) ELSE verify_prediction_common(m, preds)

\* card_predictor.should_predict(text), evaluated at time t.
handler_should_predict(m, t) ==
  IF variant = "677" THEN should_predict677(m, t) ELSE should_predict(m, t)

\* card_predictor.make_prediction(game_number, predicted_value) after the fire
\* s: the ledger with the new record, whose message_text is
\* prediction_data['text'] and whose key is prediction_data['target_game'].
handler_make_prediction(preds, s) ==
  IF variant = "677" THEN make_prediction677(preds, s.game, s.confidence)
  ELSE make_prediction(preds, s.game)

\* result of bot.send_message: the id of the message just created, or a falsy
\* value when the call failed.  Ids are fresh: one more than the calls so far.
send_message(box, ok) == IF ok THEN Len(box) + 1 ELSE NoId

\* prediction_obj.get('prediction_message_id')
prediction_message_id(prediction_obj) ==
  IF "prediction_message_id" \in DOMAIN prediction_obj
  THEN prediction_obj.prediction_message_id ELSE NoId

\* Variant of answer_verification that edits the message sent last, whatever
\* id the record carries.
answer_verification_latest(ret, preds, box, ok) ==
  IF ret.type # "edit_message" THEN box
  ELSE
    LET predicted_game_number == ret.predicted_game
    IN  IF predicted_game_number \notin DOMAIN preds THEN box
        ELSE
          LET original_msg_id == prediction_message_id(preds[predicted_game_number])
          IN  IF original_msg_id # NoId
              THEN Append(box, [kind |-> "edit", cause |-> "resolution",
                                target |-> predicted_game_number,
                                message_id |-> Len(box),
                                text |-> ret.new_message, ok |-> ok])
              ELSE Append(box, [kind |-> "send", cause |-> "resolution",
                                target |-> predicted_game_number,
                                message_id |-> send_message(box, ok),
                                text |-> <<"VERIFICATION", predicted_game_number>>
                                         \o ret.new_message,
                                ok |-> ok])

\* The branch that answers a verification result of type 'edit_message': the
\* outbox after it.  preds is the ledger as verify_prediction left it.
answer_verification(ret, preds, box, ok) ==
  IF ret.type # "edit_message" THEN box
  ELSE
    LET predicted_game_number == ret.predicted_game
    IN  IF predicted_game_number \notin DOMAIN preds THEN box
        ELSE
          LET original_msg_id == prediction_message_id(preds[predicted_game_number])
          IN  IF original_msg_id # NoId
              THEN Append(box, [kind |-> "edit", cause |-> "resolution",
                                target |-> predicted_game_number,
                                message_id |-> original_msg_id,
                                text |-> ret.new_message, ok |-> ok])
              ELSE Append(box, [kind |-> "send", cause |-> "resolution",
                                target |-> predicted_game_number,
                                message_id |-> send_message(box, ok),
                                text |-> <<"VERIFICATION", predicted_game_number>>
                                         \o ret.new_message,
                                ok |-> ok])

\* predictions[target_game]['prediction_message_id'] = result, under `if result`
\* and `if target_game in predictions`.
attach_message_id(preds, target_game, result) ==
  IF result # NoId /\ target_game \in DOMAIN preds
  THEN Put(preds, target_game, Put(preds[target_game], "prediction_message_id", result))
  ELSE preds

\* card_predictor.history_limit, the number of draws the handler keeps: its
\* value is set outside handlers.py; the model keeps it below MaxGame so that
\* the oldest draw is dropped.
history_limit == 2

\* card_predictor.extract_first_group_content(text): the content of the first
\* parenthesised group, None when the text has none.
extract_first_group_content(m) == extract_first_parentheses_content(m)

\* Lines 278-294: a text with a game number and a first group is recorded
\* under its game; beyond history_limit draws the oldest game is dropped.
record_draw(draws, m) ==
  LET game_number == extract_game_number(m)
  IN  IF game_number = NoGame \/ extract_first_group_content(m) = None THEN draws
      ELSE LET d1 == Put(draws, game_number, [text |-> m.tid])
           IN  IF Cardinality(DOMAIN d1) > history_limit
               THEN Drop(d1, Min(DOMAIN d1))
               ELSE d1

\* process_update from line 271 on, for a message that is not pending: v is
\* the result of verify_prediction, s the result of should_predict.
HandleFinalized(m, ok, v, s) ==
  LET game_number == extract_game_number(m)
      box1 == answer_verification(v.ret, v.preds, outbox, ok)
      target_game == s.game + TargetDistance
      created == IF s.fire THEN handler_make_prediction(v.preds, s) ELSE v.preds
      result == send_message(box1, ok)
  IN  /\ pending_messages' =
           IF game_number # NoGame /\ game_number \in DOMAIN pending_messages
           THEN Drop(pending_messages, game_number)
           ELSE pending_messages
      /\ sequential_history' = s.hist
      /\ inter_data' = s.inter
      /\ processed_messages' = s.processed
      /\ last_prediction_time' = s.lpt
      /\ predictions' = IF s.fire THEN attach_message_id(created, target_game, result)
                        ELSE created
      /\ outbox' = IF s.fire
                   THEN Append(box1, [kind |-> "send", cause |-> "fire",
                                      target |-> target_game,
                                      message_id |-> result,
                                      text |-> created[target_game].message_text,
                                      ok |-> ok])
                   ELSE box1
      /\ fires' = IF s.fire THEN Append(fires, [game |-> s.game, time |-> now])
                  ELSE fires
      /\ resolved' = Resolve(resolved, v, m)
      /\ misses' = Miss(misses, v, m, variant = "simple" \/ is_finalized677(m))
      /\ suppressed' = IF variant = "677" THEN Suppress677(suppressed, m, s, now)
                       ELSE SuppressSimple(suppressed, m, now)
      /\ draw_history' = record_draw(draw_history, m)
      /\ UNCHANGED <<variant, now, is_inter_mode_active, smart_rules,
                     target_channel_id, inflight>>

\* Variant of ProcessUpdate that handles a pending text like any other.
ProcessUpdate_through(m, ok) ==
  /\ nops < MaxOps
  /\ nops' = nops + 1
  /\ HandleFinalized(m, ok, verify_prediction(m, predictions),
                     handler_should_predict(m, now))

\* process_update for a message of the source channel; ok says whether the
\* outbound calls made while handling it succeed.  The caller's own state
\* (poller, storage) is left to the caller.
ProcessUpdate(m, ok) ==
  /\ nops < MaxOps
  /\ nops' = nops + 1
  /\ IF is_pending_message(m)
     THEN /\ pending_messages' =
               IF extract_game_number(m) # NoGame
               THEN Put(pending_messages, extract_game_number(m), [text |-> m.tid])
               ELSE pending_messages
          /\ UNCHANGED <<variant, now, engine, history, outbox, inflight, draw_history>>
     ELSE HandleFinalized(m, ok, verify_prediction(m, predictions),
                          handler_should_predict(m, now))

\* One update delivered to process_update outside the polling loop.
SourceUpdate(m, ok) == ProcessUpdate(m, ok) /\ UNCHANGED <<poller, storage>>

NextHandler ==
  \/ Tick
  \/ SetChannelId
  \/ \E m \in Msgs, ok \in BOOLEAN : SourceUpdate(m, ok)

\* The update handler over either predictor.
SpecHandler == Init /\ [][NextHandler]_vars

\* ------------------------------------------------------ webhook (main.py)
\* Each POST to /webhook runs webhook() on a request thread of its own; the
\* call goes through bot.handle_update to the predictor.  Nothing on that way
\* and nothing in the predictor takes a lock, so the statements of two calls
\* of should_predict can alternate.

\* TelegramHandlers.handle_update lets a request thread into the predictor
\* whatever the other threads are doing.
may_enter(th) == inflight[th].pc = "idle"

\* should_predict of the 8-rule predictor up to and including the test
\* `game_number not in self.processed_messages`: r is its outcome on the state
\* the thread saw.  The history writes of collect_inter_data are done; the
\* writes of lines 404-408 are still to come.
EvaluateWith(th, m, r) ==
  /\ sequential_history' = r.hist
  /\ inter_data' = r.inter
  /\ suppressed' = Suppress677(suppressed, m, r, now)
  /\ inflight' = IF r.fire
                 THEN [inflight EXCEPT ![th] = [pc |-> "commit", game |-> r.game,
                                                confidence |-> r.confidence]]
                 ELSE inflight
  /\ UNCHANGED <<variant, now, predictions, processed_messages, last_prediction_time,
                 is_inter_mode_active, smart_rules, target_channel_id,
                 fires, resolved, misses,
                 outbox, pending_messages, draw_history, poller, storage>>

WebhookEvaluate(th, m) ==
  /\ variant = "677"
  /\ nops < MaxOps
  /\ may_enter(th)
  /\ nops' = nops + 1
  /\ EvaluateWith(th, m, should_predict677(m, now))

\* Lines 404-409 of should_predict: processed_messages.add, last_prediction_time
\* = time.time(), make_prediction, return True.
WebhookCommit(th) ==
  /\ variant = "677"
  /\ inflight[th].pc = "commit"
  /\ processed_messages' = processed_messages \cup {inflight[th].game}
  /\ last_prediction_time' = now
  /\ predictions' = make_prediction677(predictions, inflight[th].game,
                                       inflight[th].confidence)
  /\ fires' = Append(fires, [game |-> inflight[th].game, time |-> now])
  /\ inflight' = [inflight EXCEPT ![th] = Idle]
  /\ UNCHANGED <<variant, now, sequential_history, inter_data, is_inter_mode_active,
                 smart_rules, target_channel_id, nops, resolved, misses, suppressed,
                 outbox, pending_messages, draw_history, poller, storage>>

NextWebhook ==
  \/ Tick
  \/ \E th \in Threads, m \in Msgs : WebhookEvaluate(th, m)
  \/ \E th \in Threads : WebhookCommit(th)

\* The 8-rule predictor behind the webhook server.
SpecWebhook == Init677 /\ [][NextWebhook]_vars

\* ------------------------------------------------- polling (main_render.py)
PollMsgs == [num : Games, tid : {"J5", "QJJ"}]

\* An update process_update raises on: it has no 'chat' key, so
\* message_data['chat']['id'] fails before anything is read or written.
Malformed == [bad |-> TRUE, msg |-> [num |-> NoGame, tid |-> "N75"]]

Updates == {Malformed} \cup {[bad |-> FALSE, msg |-> m] : m \in PollMsgs}

\* bot.get_updates(offset): the update_ids the transport still holds from
\* offset on (all of them while offset is 0), oldest first.
get_updates(held, from) ==
  LET first == IF from < 1 THEN 1 ELSE from
  IN  [i \in 1..(IF Len(held) >= first THEN Len(held) - first + 1 ELSE 0) |-> first + i - 1]

\* The transport receives one more update.
Arrive(u) ==
  /\ Len(updates) < MaxUpdates
  /\ updates' = Append(updates, u)
  /\ UNCHANGED <<variant, now, engine, nops, history, handler, offset, batch, calls,
                 storage>>

\* updates = bot.get_updates(offset=offset, timeout=30), once the for loop over
\* the previous list is finished.
GetUpdates ==
  /\ batch = << >>
  /\ get_updates(updates, offset) # << >>
  /\ batch' = get_updates(updates, offset)
  /\ UNCHANGED <<variant, now, engine, nops, history, handler, updates, offset, calls,
                 storage>>

\* One round of the for loop, process_update raising: the except clause logs
\* and the loop goes on; offset keeps its value.
PollRaise ==
  /\ batch # << >>
  /\ updates[Head(batch)].bad
  /\ Len(calls) < MaxCalls
  /\ calls' = Append(calls, Head(batch))
  /\ batch' = Tail(batch)
  /\ UNCHANGED <<variant, now, engine, nops, history, handler, updates, offset,
                 storage>>

\* One round of the for loop, process_update returning: offset = update_id + 1.
PollHandle(ok) ==
  /\ batch # << >>
  /\ ~updates[Head(batch)].bad
  /\ Len(calls) < MaxCalls
  /\ ProcessUpdate(updates[Head(batch)].msg, ok)
  /\ calls' = Append(calls, Head(batch))
  /\ offset' = Head(batch) + 1
  /\ batch' = Tail(batch)
  /\ UNCHANGED <<updates, storage>>

NextPoller ==
  \/ SetChannelId
  \/ \E u \in Updates : Arrive(u)
  \/ GetUpdates
  \/ PollRaise
  \/ \E ok \in BOOLEAN : PollHandle(ok)

\* The polling loop over either predictor.
SpecPoller == Init /\ [][NextPoller]_vars

\* --------------------------------------------------- persistence (JSON files)
Contents == {"missing", "garbage", "badbytes", "null", "valid"}

\* What the body of the try in _load_data does on a file holding content c:
\* the exception it raises ("none": it returns) and the value it returns.
\* 8-rule predictor; the flags are those of the call.
try_load677(file, c, is_set, is_scalar, is_inter_active, is_sequential_history) ==
  IF c = "missing" THEN [exc |-> "FileNotFoundError", value |-> "Null"]
  ELSE IF c = "garbage" THEN [exc |-> "JSONDecodeError", value |-> "Null"]
  ELSE IF c = "badbytes" THEN [exc |-> "UnicodeDecodeError", value |-> "Null"]
  ELSE IF c = "valid" THEN [exc |-> "none", value |-> "Data"]
  ELSE IF is_set THEN [exc |-> "TypeError", value |-> "Null"]
  ELSE IF is_scalar
  THEN IF file = "inter_mode_status.json" THEN [exc |-> "AttributeError", value |-> "Null"]
       ELSE [exc |-> "TypeError", value |-> "Null"]
  ELSE IF is_inter_active THEN [exc |-> "AttributeError", value |-> "Null"]
  ELSE IF is_sequential_history THEN [exc |-> "AttributeError", value |-> "Null"]
  ELSE [exc |-> "none", value |-> "Null"]

\* JSONDecodeError and UnicodeDecodeError are subclasses of ValueError.
IsValueError(exc) == exc \in {"JSONDecodeError", "UnicodeDecodeError"}

\* _load_data of the 8-rule predictor on a file holding content c.
load_data677(file, c, is_set, is_scalar, is_list, is_inter_active, is_sequential_history) ==
  LET r == try_load677(file, c, is_set, is_scalar, is_inter_active, is_sequential_history)
  IN  IF r.exc = "none" THEN r.value
      ELSE IF r.exc = "FileNotFoundError" \/ IsValueError(r.exc)
      THEN IF is_set THEN "EmptySet"
           ELSE IF is_scalar THEN "Zero"
           ELSE IF is_inter_active THEN "False"
           ELSE IF is_list THEN "EmptyList"
           ELSE "EmptyMap"
      ELSE IF is_set THEN "EmptySet"
           ELSE IF is_inter_active THEN "False"
           ELSE IF is_list THEN "EmptyList"
           ELSE "EmptyMap"

\* The _load_data calls of __init__ of the 8-rule predictor, by file.
init_load677(file, c) ==
  load_data677(file, c,
               file = "processed.json",
               file = "last_prediction_time.json",
               file \in {"inter_data.json", "smart_rules.json"},
               file = "inter_mode_status.json",
               file = "sequential_history.json")

\* The body of the try in _load_data of the simple predictor.
try_load(filename, c, is_set, is_scalar) ==
  IF c = "missing" THEN [exc |-> "FileNotFoundError", value |-> "Null"]
  ELSE IF c = "garbage" THEN [exc |-> "JSONDecodeError", value |-> "Null"]
  ELSE IF c = "badbytes" THEN [exc |-> "UnicodeDecodeError", value |-> "Null"]
  ELSE IF c = "valid" THEN [exc |-> "none", value |-> "Data"]
  ELSE IF is_set THEN [exc |-> "TypeError", value |-> "Null"]
  ELSE IF is_scalar
  THEN IF filename = "inter_mode_status.json"
       THEN [exc |-> "AttributeError", value |-> "Null"]
       ELSE [exc |-> "none", value |-> "Null"]
  ELSE IF filename = "inter_data.json" THEN [exc |-> "none", value |-> "Null"]
  ELSE IF filename = "sequential_history.json"
  THEN [exc |-> "AttributeError", value |-> "Null"]
  ELSE [exc |-> "none", value |-> "Null"]

\* _load_data of the simple predictor on a file holding content c.
load_data(filename, c, is_set, is_scalar) ==
  LET r == try_load(filename, c, is_set, is_scalar)
  IN  IF r.exc = "none" THEN r.value
      ELSE IF r.exc \in {"FileNotFoundError", "JSONDecodeError"}
      THEN IF is_set THEN "EmptySet"
           ELSE IF is_scalar /\ filename = "inter_mode_status.json" THEN "False"
           ELSE IF is_scalar THEN "Zero"
           ELSE IF filename = "inter_data.json" THEN "EmptyList"
           ELSE IF filename = "sequential_history.json" THEN "EmptyMap"
           ELSE IF filename = "smart_rules.json" THEN "EmptyList"
           ELSE "EmptyMap"
      ELSE IF is_set THEN "EmptySet"
           ELSE IF filename = "inter_mode_status.json" THEN "False"
           ELSE IF filename = "inter_data.json" THEN "EmptyList"
           ELSE "EmptyMap"

\* The _load_data calls of __init__ of the simple predictor, by file.
init_load(filename, c) ==
  load_data(filename, c,
            filename = "processed.json",
            filename \in {"last_prediction_time.json", "inter_mode_status.json"})

\* At most MaxBadFiles files hold something the predictor did not write.
FileStates ==
  {fs \in [FileNames -> Contents] :
     Cardinality({f \in FileNames : fs[f] # "valid"}) <= MaxBadFiles}

\* The process starts: nothing is loaded yet, the engine fields hold what the
\* predictor of an empty installation would write.
InitStorage ==
  /\ variant \in {"677", "simple"}
  /\ now = StartTime
  /\ predictions = << >>
  /\ processed_messages = {}
  /\ last_prediction_time = 0
  /\ sequential_history = << >>
  /\ inter_data = << >>
  /\ is_inter_mode_active = FALSE
  /\ smart_rules = << >>
  /\ target_channel_id = NoChat
  /\ nops = 0
  /\ fires = << >>
  /\ resolved = << >>
  /\ misses = {}
  /\ suppressed = {}
  /\ outbox = << >>
  /\ pending_messages = << >>
  /\ inflight = [th \in Threads |-> Idle]
  /\ draw_history = << >>
  /\ updates = << >>
  /\ offset = 0
  /\ batch = << >>
  /\ calls = << >>
  /\ files \in FileStates
  /\ loaded = << >>
  /\ ctor = "loading"
  /\ writes = NoSave

\* The next self.<field> = self._load_data(...) of __init__.  The line after
\* the load of channels_config.json calls .get on the value and raises when it
\* is not a dict.
LoadNext ==
  /\ ctor = "loading"
  /\ Cardinality(DOMAIN loaded) < Len(FileOrder)
  /\ LET file == FileOrder[Cardinality(DOMAIN loaded) + 1]
         value == IF variant = "677" THEN init_load677(file, files[file])
                  ELSE init_load(file, files[file])
     IN  /\ loaded' = Put(loaded, file, value)
         /\ ctor' = IF file = "channels_config.json" /\ value = "Null"
                    THEN "raised" ELSE "loading"
  /\ UNCHANGED <<variant, now, engine, nops, history, handler, poller, files, writes>>

\* The end of __init__, after the last load.  The 8-rule predictor writes
\* channels_config.json when it does not exist (ok: the write succeeds); the
\* recomputation of the rules is skipped since inter_data is empty or None for
\* every content above.
FinishInit(ok) ==
  /\ ctor = "loading"
  /\ Cardinality(DOMAIN loaded) = Len(FileOrder)
  /\ ctor' = "done"
  /\ files' = IF variant = "677" /\ files["channels_config.json"] = "missing" /\ ok
              THEN [files EXCEPT !["channels_config.json"] = "valid"]
              ELSE files
  /\ UNCHANGED <<variant, now, engine, nops, history, handler, poller, loaded, writes>>

\* How a write goes: "ok", or it fails in open (the file keeps its content)
\* or in json.dump (the file was truncated by open and is left incomplete).
WriteModes == {"ok", "open", "dump"}

\* At most MaxBadWrites writes of one save fail.
WriteOutcomes ==
  {ws \in [FileNames -> WriteModes] :
     Cardinality({f \in FileNames : ws[f] # "ok"}) <= MaxBadWrites}

\* Variant of save_data whose except clause lets the error through.
save_data_raising(c, mode) ==
  IF mode = "ok" THEN [content |-> "valid", raised |-> FALSE]
  ELSE IF mode = "open" THEN [content |-> c, raised |-> TRUE]
  ELSE [content |-> "garbage", raised |-> TRUE]

\* _save_data on a file holding c: the content it leaves and whether it
\* raised.  The try covers open and json.dump; except Exception logs.
save_data(c, mode) ==
  IF mode = "ok" THEN [content |-> "valid", raised |-> FALSE]
  ELSE IF mode = "open" THEN [content |-> c, raised |-> FALSE]
  ELSE [content |-> "garbage", raised |-> FALSE]

\* The files _save_all_data writes, in order.
SaveOrder677 ==
  <<"predictions.json", "processed.json", "last_prediction_time.json",
    "sequential_history.json", "inter_data.json", "inter_mode_status.json",
    "smart_rules.json", "channels_config.json">>

SaveOrder ==
  <<"predictions.json", "processed.json", "last_prediction_time.json",
    "inter_data.json", "sequential_history.json", "inter_mode_status.json",
    "smart_rules.json">>

\* The _save_data calls of _save_all_data over the files of order, one after
\* the other, until one raises: [files, attempts, raised].
RECURSIVE SaveFiles(_, _, _, _)
SaveFiles(order, fs, modes, attempts) ==
  IF Len(order) = 0 THEN [files |-> fs, attempts |-> attempts, raised |-> FALSE]
  ELSE LET file == Head(order)
           w == save_data(fs[file], modes[file])
           fs1 == [fs EXCEPT ![file] = w.content]
       IN  IF w.raised
           THEN [files |-> fs1, attempts |-> Append(attempts, file), raised |-> TRUE]
           ELSE SaveFiles(Tail(order), fs1, modes, Append(attempts, file))

save_all_data(fs, modes) ==
  SaveFiles(IF variant = "677" THEN SaveOrder677 ELSE SaveOrder, fs, modes, << >>)

\* make_prediction: the record is stored, then _save_all_data runs, then the
\* prediction text is returned.  sv is the outcome of the save.
MakePredictionWith(game_number, confidence, sv) ==
  /\ predictions' = IF variant = "677"
                    THEN make_prediction677(predictions, game_number, confidence)
                    ELSE make_prediction(predictions, game_number)
  /\ files' = sv.files
  /\ writes' = [attempts |-> sv.attempts,
                returned |-> IF sv.raised THEN <<"raised">>
                             ELSE IF variant = "677"
                             THEN PredictionText677(game_number + TargetDistance,
                                                    "WAIT", confidence)
                             ELSE PredictionText(game_number + TargetDistance, "WAIT")]

MakePrediction(game_number, confidence, modes) ==
  /\ ctor = "done"
  /\ nops < MaxOps
  /\ nops' = nops + 1
  /\ MakePredictionWith(game_number, confidence, save_all_data(files, modes))
  /\ UNCHANGED <<variant, now, processed_messages, last_prediction_time,
                 sequential_history, inter_data, is_inter_mode_active, smart_rules,
                 target_channel_id, history, handler, poller, loaded, ctor>>

NextStorage ==
  \/ LoadNext
  \/ \E ok \in BOOLEAN : FinishInit(ok)
  \/ \E g \in 1..MaxSaveGame, modes \in WriteOutcomes : MakePrediction(g, "98%", modes)

SpecStorage == InitStorage /\ [][NextStorage]_vars

\* ======================================================================
\* Properties
\* ======================================================================
PrimaryValues(m) == CardValues(extract_card_details(Text(m).g1))

HasQ(m) == "Q" \in Elems(PrimaryValues(m))

FiredGames == {fires[i].game : i \in 1..Len(fires)}

Pending(preds, t) == t \in DOMAIN preds /\ preds[t].status = "pending"

\* C1 - In the 8-rule predictor a message whose primary group contains a Q
\* card never fires, whatever else matches: should_predict returns no-fire
\* and adds no ledger record (nor marks the game processed or restarts the
\* cooldown).
C1_QBlocksFire ==
  variant = "677" =>
    \A m \in Msgs :
      HasQ(m) =>
        LET r == should_predict677(m, now)
        IN  /\ ~r.fire
            /\ r.preds = predictions
            /\ r.processed = processed_messages
            /\ r.lpt = last_prediction_time

\* A Q-bearing message went through should_predict (it is recorded in the
\* history) without firing, in a state where a rule of the cascade matches it,
\* the cooldown allows a prediction and the game is not yet processed.
C1_Witness ==
  /\ variant = "677"
  /\ \E m \in Msgs :
       /\ HasQ(m) /\ is_finalized677(m)
       /\ m.num \in DOMAIN sequential_history
       /\ sequential_history[m.num] = get_first_two_cards(Text(m).g1)
       /\ m.num \notin FiredGames
       /\ m.num \notin processed_messages
       /\ can_make_prediction677(last_prediction_time, now)
       /\ Cascade677(m, sequential_history, inter_data, is_inter_mode_active, smart_rules) # None

\* C8 - No two predictions of the 8-rule predictor are emitted less than the
\* cooldown interval apart, and while the interval since the latest emission
\* has not elapsed no message fires.
C8_Cooldown ==
  variant = "677" =>
    /\ \A i, j \in 1..Len(fires) :
         i < j => fires[j].time - fires[i].time >= prediction_cooldown
    /\ \A m \in Msgs :
         (Len(fires) > 0 /\ now - fires[Len(fires)].time < prediction_cooldown)
           => ~should_predict677(m, now).fire

\* A prediction was emitted, and a rule-matching finalized message of another,
\* unprocessed game is at hand before the interval has elapsed.
C8_Witness ==
  /\ variant = "677"
  /\ Len(fires) > 0
  /\ now - fires[Len(fires)].time < prediction_cooldown
  /\ \E m \in Msgs :
       /\ is_finalized677(m) /\ ~HasQ(m)
       /\ m.num \notin FiredGames
       /\ m.num \in DOMAIN sequential_history
       /\ Cascade677(m, sequential_history, inter_data, is_inter_mode_active, smart_rules) # None

\* C9 - The 8-rule predictor fires at most once per game number: every game
\* that fired is in the processed set, no game occurs twice among the emitted
\* predictions, and no message of a game that fired fires again.
C9_OncePerGame ==
  variant = "677" =>
    /\ FiredGames \subseteq processed_messages
    /\ \A i, j \in 1..Len(fires) : i < j => fires[i].game # fires[j].game
    /\ \A m \in Msgs : m.num \in FiredGames => ~should_predict677(m, now).fire

\* A game has fired, the cooldown has elapsed since, and a rule-matching
\* finalized message of the same game is at hand.
C9_Witness ==
  /\ variant = "677"
  /\ \E i \in 1..Len(fires), m \in Msgs :
       /\ m.num = fires[i].game
       /\ can_make_prediction677(last_prediction_time, now)
       /\ is_finalized677(m) /\ ~HasQ(m)
       /\ Cascade677(m, sequential_history, inter_data, is_inter_mode_active, smart_rules) # None

\* C10 - A finalized message of game g whose primary group holds exactly one J
\* and no A, K or Q, with the learner inactive, the cooldown elapsed and g not
\* yet processed, fires with confidence 98% and leaves a pending record at
\* target g + 2.
C10_LoneJack ==
  variant = "677" =>
    \A m \in Msgs :
      ( /\ is_finalized677(m)
        /\ Count(PrimaryValues(m), "J") = 1
        /\ Elems(PrimaryValues(m)) \cap {"A", "K", "Q"} = {}
        /\ ~is_inter_mode_active
        /\ (last_prediction_time = 0 \/ now > last_prediction_time + 30)
        /\ m.num \notin processed_messages )
      => LET r == should_predict677(m, now)
         IN  /\ r.fire
             /\ r.game = m.num
             /\ r.confidence = "98%"
             /\ r.text = <<"B", m.num + 2, "B", ":Valeur Q statut :", "WAIT", "(", "98%", ")">>
             /\ (m.num + 2) \in DOMAIN r.preds
             /\ r.preds[m.num + 2].status = "pending"
             /\ r.preds[m.num + 2].predicted_from = m.num
             /\ r.preds[m.num + 2].confidence = "98%"
             /\ r.preds[m.num + 2].message_text = r.text

\* A lone-jack message fired: the ledger holds its pending 98% record two
\* games ahead.
C10_Witness ==
  /\ variant = "677"
  /\ \E i \in 1..Len(fires) :
       LET g == fires[i].game
       IN  /\ Pending(predictions, g + 2)
           /\ predictions[g + 2].predicted_from = g
           /\ predictions[g + 2].confidence = "98%"
           /\ g \in DOMAIN sequential_history
           /\ sequential_history[g] = << <<"J", "S">>, <<"5", "D">> >>

\* ------------------------------------------- ordered delivery of results
\* The finalized texts of the source channel.
FeedTexts == {"J5", "QJJ", "N75"}

\* The source channel delivers the finalized result of the next game; the
\* games arrive in ascending order, one message per game, game nops + 1 being
\* the next.  As in process_update, verify runs once on the message (line 296)
\* and should_predict runs after it (line 337).
Feed(tid) ==
  /\ variant = "677"
  /\ nops < MaxGame
  /\ nops' = nops + 1
  /\ LET m == [num |-> nops + 1, tid |-> tid]
         r == verify677(m, predictions)
         s == should_predict677(m, now)
     IN  /\ sequential_history' = s.hist
         /\ inter_data' = s.inter
         /\ processed_messages' = s.processed
         /\ last_prediction_time' = s.lpt
         /\ predictions' = IF s.fire
                           THEN make_prediction677(r.preds, s.game, s.confidence)
                           ELSE r.preds
         /\ fires' = IF s.fire THEN Append(fires, [game |-> s.game, time |-> now]) ELSE fires
         /\ resolved' = Resolve(resolved, r, m)
         /\ misses' = Miss(misses, r, m, is_finalized677(m))
         /\ suppressed' = Suppress677(suppressed, m, s, now)
  /\ UNCHANGED handler
  /\ UNCHANGED poller
  /\ UNCHANGED storage
  /\ UNCHANGED <<variant, now, is_inter_mode_active, smart_rules, target_channel_id>>

NextFeed ==
  \/ Tick
  \/ \E tid \in FeedTexts : Feed(tid)

\* The delivery of the next result: the step that advances the count of
\* delivered games.  Under NextFeed these are the Feed steps, and one is
\* possible exactly when a game remains to be delivered.
Delivery == nops < MaxGame /\ nops' = nops + 1

\* The source channel keeps delivering: a result that can arrive does arrive.
SpecFeed == Init677 /\ [][NextFeed]_vars /\ WF_nops(Delivery)

\* ------------------------------------------------------- verification
\* The call verify(m) on the current ledger, for the running predictor.
VerifyResult(m, preds) ==
  IF variant = "677" THEN verify677(m, preds) ELSE verify_prediction_common(m, preds)

Offsets(preds, m, lo, hi) ==
  {t \in DOMAIN preds : preds[t].status = "pending" /\ lo <= m.num - t /\ m.num - t <= hi}

SuccessText(t, k, preds) ==
  IF variant = "677"
  THEN <<"B", t, "B", ":Valeur Q statut :", <<"OK", k>>>> \o confidence_tag(preds[t].confidence)
  ELSE <<"B", t, "B", ":Valeur Q statut :", <<"OK", k>>>>

FailureText(t, preds) ==
  IF variant = "677"
  THEN <<"B", t, "B", ":Valeur Q statut :", "FAIL">> \o confidence_tag(preds[t].confidence)
  ELSE <<"B", t, "B", ":Valeur Q statut :", "FAIL">>

OffsetStatus(k) ==
  IF k = 0 THEN "correct_offset_0" ELSE IF k = 1 THEN "correct_offset_1"
  ELSE IF k = 2 THEN "correct_offset_2" ELSE "correct_offset_3"

\* A finalized Q-bearing message resolves the first pending record (ascending
\* target) whose offset lies in 0..hi, as correct at that offset.
ResolvesFirstInWindow(hi) ==
  \A m \in Msgs :
    (is_finalized677(m) /\ HasQ(m) /\ Offsets(predictions, m, 0, hi) # {})
    => LET t == Min(Offsets(predictions, m, 0, hi))
           k == m.num - t
           r == VerifyResult(m, predictions)
       IN  /\ r.ret.type = "edit_message"
           /\ r.ret.predicted_game = t
           /\ r.ret.new_message = SuccessText(t, k, predictions)
           /\ r.prediction.status = OffsetStatus(k)
           /\ r.prediction.verification_count = k
           /\ IF variant = "677" THEN t \notin DOMAIN r.preds
              ELSE r.preds[t] = r.prediction

\* C2 (as claimed) - verify on a finalized Q-bearing message resolves the
\* first pending record whose offset lies in 0..3, for every k in {0,1,2,3}.
C2_Original == ResolvesFirstInWindow(3)

\* C2 (amended) - verify on a finalized Q-bearing message resolves the first
\* pending record (ascending target) whose offset k lies in 0..2: the record
\* is marked correct at offset k (and removed from the ledger in the 8-rule
\* predictor) and the edit text carries the success glyph indexed by k; a
\* pending record at offset 3 is not resolved by it.
C2_ResolvesInWindow ==
  /\ ResolvesFirstInWindow(2)
  /\ \A m \in Msgs, t \in DOMAIN predictions :
       (predictions[t].status = "pending" /\ m.num - t = 3)
       => LET r == VerifyResult(m, predictions)
          IN  /\ t \in DOMAIN r.preds
              /\ r.preds[t] = predictions[t]

\* A prediction was resolved as correct at the last offset of the window, by
\* the Q-bearing message two games after its target.
C2_Witness ==
  \E t \in DOMAIN resolved :
    /\ resolved[t][1] = [status |-> "correct_offset_2", game |-> t + 2]
    /\ ~Pending(predictions, t)

\* A finalized message without Q at offset k from a pending target marks the
\* record failed and returns one resolution for it, with the failure glyph.
FailsAtOffset(k) ==
  variant = "677" =>
    \A m \in Msgs :
      (is_finalized677(m) /\ ~HasQ(m) /\ Pending(predictions, m.num - k))
      => LET t == m.num - k
             r == verify677(m, predictions)
         IN  /\ r.ret.type = "edit_message"
             /\ r.ret.predicted_game = t
             /\ r.ret.new_message = FailureText(t, predictions)
             /\ r.prediction.status = "failed"
             /\ ~Pending(r.preds, t)

\* C3 (as claimed) - a finalized message without Q at offset 3 marks the
\* pending record failed.
C3_Original == FailsAtOffset(3)

\* C3 (amended) - a finalized message without Q at offset 2 from a pending
\* record's target (game = target + 2) marks that record failed, renders the
\* failure glyph and returns one resolution for it; at offset 3 verify does
\* nothing to the record.
C3_FailsAtLastOffset ==
  /\ FailsAtOffset(2)
  /\ variant = "677" =>
       \A m \in Msgs :
         (is_finalized677(m) /\ ~HasQ(m) /\ Pending(predictions, m.num - 3))
         => verify677(m, predictions).preds[m.num - 3] = predictions[m.num - 3]

\* A prediction was resolved as failed by the message two games after its target.
C3_Witness ==
  /\ variant = "677"
  /\ \E t \in DOMAIN resolved :
       /\ resolved[t][1] = [status |-> "failed", game |-> t + 2]
       /\ t \notin DOMAIN predictions

\* A finalized message without Q at an offset in 0..hi leaves the pending
\* record as it is.
StaysPending(hi) ==
  \A m \in Msgs, t \in DOMAIN predictions :
    ( /\ is_finalized677(m) /\ ~HasQ(m)
      /\ predictions[t].status = "pending"
      /\ 0 <= m.num - t /\ m.num - t <= hi )
    => LET r == VerifyResult(m, predictions)
       IN  /\ t \in DOMAIN r.preds
           /\ r.preds[t] = predictions[t]
           /\ (r.ret.type = "none" \/ r.ret.predicted_game # t)

\* C4 (as claimed) - a finalized message without Q at offset 0, 1 or 2 takes
\* no terminal action on the pending record.
C4_Original == StaysPending(2)

\* C4 (amended) - a finalized message without Q at offset 0 or 1 from a
\* pending record's target takes no terminal action on that record: it stays
\* pending and unchanged.
C4_StaysPending == StaysPending(1)

\* verify examined a pending record at offsets 0 and 1 with messages without
\* Q, and the record is still pending.
C4_Witness ==
  \E t \in DOMAIN predictions :
    /\ predictions[t].status = "pending"
    /\ <<t, 0>> \in misses
    /\ <<t, 1>> \in misses

\* C5 (as claimed) - whenever verify returns a resolution for a finalized
\* message, an immediate second call with the same message returns none.
C5_Original ==
  \A m \in Msgs :
    LET r1 == VerifyResult(m, predictions)
    IN  (is_finalized677(m) /\ r1.ret.type # "none")
        => VerifyResult(m, r1.preds).ret.type = "none"

\* The pending records a message can resolve: Q at an offset in 0..2, or no
\* Q at offset 2.
Resolvable(preds, m) ==
  {t \in DOMAIN preds :
     /\ preds[t].status = "pending"
     /\ 0 <= m.num - t /\ m.num - t <= 2
     /\ (HasQ(m) \/ m.num - t = 2)}

\* C5 (amended) - a second verify call with the same finalized message never
\* resolves the record the first call resolved: it returns none when that
\* record was the only pending one the message can resolve, and otherwise
\* resolves another pending record, with a larger target.
C5_SecondCall ==
  \A m \in Msgs :
    LET r1 == VerifyResult(m, predictions)
        r2 == VerifyResult(m, r1.preds)
    IN  (is_finalized677(m) /\ r1.ret.type # "none")
        => /\ ~Pending(r1.preds, r1.ret.predicted_game)
           /\ IF Resolvable(predictions, m) = {r1.ret.predicted_game}
              THEN r2.ret.type = "none" /\ r2.preds = r1.preds
              ELSE /\ r2.ret.type = "edit_message"
                   /\ r2.ret.predicted_game > r1.ret.predicted_game

\* A verify call resolved a record with a Q-bearing message while a second
\* pending record, still in the ledger, has the same message in its window.
C5_Witness ==
  \E t \in DOMAIN resolved, u \in DOMAIN predictions :
    /\ u # t
    /\ predictions[u].status = "pending"
    /\ resolved[t][1].status # "failed"
    /\ 0 <= resolved[t][1].game - u /\ resolved[t][1].game - u <= 2

\* C6 - Each verify call returns at most one resolution, for the pending
\* record with the smallest target among those the message can resolve, and
\* leaves every other ledger record unchanged.
C6_OneResolution ==
  variant = "677" =>
    \A m \in Msgs :
      LET r == verify677(m, predictions)
          R == IF is_finalized677(m) THEN Resolvable(predictions, m) ELSE {}
      IN  IF R = {}
          THEN r.ret.type = "none" /\ r.preds = predictions
          ELSE /\ r.ret.type = "edit_message"
               /\ r.ret.predicted_game = Min(R)
               /\ DOMAIN r.preds = DOMAIN predictions \ {Min(R)}
               /\ \A t \in DOMAIN r.preds : r.preds[t] = predictions[t]

\* Two pending records could both be resolved by one Q-bearing message; the
\* call resolved the smaller target and the larger one is still pending.
C6_Witness ==
  /\ variant = "677"
  /\ \E t \in DOMAIN resolved, u \in DOMAIN predictions :
       /\ t < u
       /\ predictions[u].status = "pending"
       /\ resolved[t][1].status # "failed"
       /\ resolved[t][1].game >= u /\ resolved[t][1].game - u <= 2

\* C7 (as claimed) - once the prediction for a target has been resolved, the
\* ledger never holds a pending record for that target again and no second
\* resolution is produced for it, in either predictor.
C7_NeverRecreated ==
  \A t \in DOMAIN resolved :
    /\ ~Pending(predictions, t)
    /\ Len(resolved[t]) <= 1

\* ------------------------------------------------------- rule cascade
\* Claim-side reading of a message, independent of the parser's filters.
Finalized(m) == ~Text(m).pend /\ Text(m).done

HasPrimary(m) == Len(Text(m).g1) > 0

\* The cooldown has elapsed (or nothing was ever predicted) and the game of m
\* has not fired yet.
Clear(m) ==
  /\ last_prediction_time = 0 \/ now > last_prediction_time + 30
  /\ m.num \notin processed_messages

\* The learner proposes nothing for m: it is inactive, or it is active with a
\* non-empty rule list none of whose card pairs is the first two cards of m.
NoLearnedMatch(m) ==
  \/ ~is_inter_mode_active
  \/ /\ is_inter_mode_active
     /\ Len(smart_rules) > 0
     /\ \A i \in 1..Len(smart_rules) :
          smart_rules[i].cards # get_first_two_cards(Text(m).g1)

\* C11 (as claimed) - every finalized message whose primary group holds two
\* or more J and no Q, with no learned-trigger match (learner inactive, or
\* active with a non-empty rule list none of which matches) and cooldown and
\* dedup clear, fires with the 57% tier, whatever the secondary group holds.
C11_TwoJacks ==
  variant = "677" =>
    \A m \in AllMsgs :
      ( /\ m.num # NoGame
        /\ Finalized(m)
        /\ Count(PrimaryValues(m), "J") >= 2
        /\ ~HasQ(m)
        /\ NoLearnedMatch(m)
        /\ Clear(m) )
      => LET r == should_predict677(m, now)
         IN  r.fire /\ r.confidence = "57%"

\* The label of the first rule, in the order lone J, two J, #T > 40, absence
\* count >= 3, 8-9-10 triple, compound fallback, whose condition holds for m
\* once m is recorded in the history; None when no condition holds.
FirstRuleLabel(m) ==
  LET c == collect_inter_data677(m.num, m, sequential_history, inter_data)
      v == Elems(PrimaryValues(m))
      w == Elems(CardValues(extract_card_details(Text(m).g2)))
      jacks == Count(PrimaryValues(m), "J")
      last_q == IF Len(c.inter) = 0 THEN 0
                ELSE Max({c.inter[i].numero_resultat : i \in 1..Len(c.inter)})
      absence == Cardinality({g \in DOMAIN c.hist : g > last_q})
      prev == m.num - 1
      prev_weak == /\ prev \in DOMAIN c.hist
                   /\ \A i \in 1..Len(c.hist[prev]) : c.hist[prev][i][1] \notin {"A", "K", "Q", "J"}
      order == << [holds |-> jacks = 1 /\ v \cap {"A", "K", "Q"} = {}, label |-> "98%"],
                  [holds |-> jacks >= 2,                               label |-> "57%"],
                  [holds |-> Text(m).T > 40,                           label |-> "97%"],
                  [holds |-> absence >= 3,                             label |-> "60%"],
                  [holds |-> {"8", "9", "10"} \subseteq v \/ {"8", "9", "10"} \subseteq w,
                                                                       label |-> "70%"],
                  [holds |-> \/ "K" \in v /\ "J" \in v
                             \/ Text(m).tag
                             \/ v \cap {"A", "K", "Q", "J"} = {} /\ prev_weak,
                                                                       label |-> "70%"] >>
      hits == {i \in 1..Len(order) : order[i].holds}
  IN  IF hits = {} THEN None ELSE order[Min(hits)].label

\* C12 - The rule cascade is first-match-wins: with the learner inactive or
\* its rule list empty, for every finalized message with a primary group
\* without Q, should_predict fires (cooldown and dedup permitting) with the
\* label of the first rule in the order lone J (98%), two J (57%), #T > 40
\* (97%), absence count >= 3 (60%), 8-9-10 triple (70%), compound fallback
\* (70%) whose condition holds, never with another label, and does not fire
\* when no condition holds.
C12_FirstMatchWins ==
  variant = "677" =>
    \A m \in AllMsgs :
      ( /\ m.num # NoGame
        /\ Finalized(m) /\ HasPrimary(m) /\ ~HasQ(m)
        /\ (~is_inter_mode_active \/ Len(smart_rules) = 0) )
      => LET r == should_predict677(m, now)
             e == FirstRuleLabel(m)
         IN  /\ e = None => ~r.fire
             /\ r.fire =>
                  /\ r.confidence = e
                  /\ r.text = <<"B", m.num + 2, "B", ":Valeur Q statut :", "WAIT", "(", e, ")">>
                  /\ r.preds[m.num + 2].confidence = e
             /\ (e # None /\ Clear(m)) => r.fire

\* A message with a weak primary group after a weak previous game fired as the
\* third recorded game without a learned Q: the absence rule (60%) won over the
\* compound fallback (70%) that also holds for it.
C12_Witness ==
  /\ variant = "677"
  /\ ~is_inter_mode_active
  /\ \E i \in 1..Len(fires) :
       LET g == fires[i].game
       IN  /\ Pending(predictions, g + 2)
           /\ predictions[g + 2].confidence = "60%"
           /\ predictions[g + 2].predicted_from = g
           /\ {g - 1, g} \subseteq DOMAIN sequential_history
           /\ \A k \in {g - 1, g} : \A j \in 1..2 :
                sequential_history[k][j][1] \notin HIGH_VALUE_CARDS

\* C13 (as claimed) - the sequential history and the learner's inter_data are
\* only written for finalized messages: should_predict on a message carrying
\* a pending glyph, or no completion glyph, leaves both unchanged.
C13_OnlyFinalized ==
  variant = "677" =>
    \A m \in AllMsgs :
      ~Finalized(m)
      => LET r == should_predict677(m, now)
         IN  r.hist = sequential_history /\ r.inter = inter_data

\* C19 - should_predict never fires for a message that is pending, lacks a
\* completion glyph, has no parseable game number or has no primary group;
\* the ledger, the processed set and the cooldown timestamp are unchanged.
C19_NoFireUnlessReady ==
  variant = "677" =>
    \A m \in AllMsgs :
      (Text(m).pend \/ ~Text(m).done \/ m.num = NoGame \/ ~HasPrimary(m))
      => LET r == should_predict677(m, now)
         IN  /\ ~r.fire
             /\ r.preds = predictions
             /\ r.processed = processed_messages
             /\ r.lpt = last_prediction_time

\* should_predict has processed a pending lone-J message (its cards are in
\* the history) with no learned rule in the way and nothing ever predicted:
\* the finalized form of the message would have fired, and nothing did.
C19_Witness ==
  /\ variant = "677"
  /\ nops > 0
  /\ last_prediction_time = 0 /\ processed_messages = {} /\ predictions = << >>
  /\ fires = << >>
  /\ ~is_inter_mode_active /\ smart_rules = << >>
  /\ \E m \in Msgs :
       /\ Text(m).pend
       /\ m.num \in DOMAIN sequential_history
       /\ sequential_history[m.num] = get_first_two_cards(Text(m).g1)
       /\ Count(PrimaryValues(m), "J") = 1
       /\ Cascade677(m, sequential_history, inter_data, is_inter_mode_active, smart_rules) = "98%"

\* ------------------------------------------------------------ learner
\* C14 (as claimed) - inter_data holds at most one entry per resolved game
\* number after any sequence of messages, repeated and edited deliveries of
\* the same Q-bearing game included, in both predictors.
C14_OneEntryPerGame ==
  \A i, j \in 1..Len(inter_data) :
    i < j => inter_data[i].numero_resultat # inter_data[j].numero_resultat

\* C18 (as claimed) - verify is a no-op on a message that is not finalized or
\* has no parseable game number: it returns none and changes no ledger
\* record, in both predictors, even at the last offset of a pending record's
\* window without Q.
C18_NoOpUnlessFinalized ==
  \A m \in AllMsgs :
    (~Finalized(m) \/ m.num = NoGame)
    => LET r == VerifyResult(m, predictions)
       IN  r.ret.type = "none" /\ r.preds = predictions

\* collect_inter_data(G, m) of the running predictor on the current state.
CollectResult(m) ==
  IF variant = "677"
  THEN collect_inter_data677(m.num, m, sequential_history, inter_data)
  ELSE collect_inter_data(m.num, m, sequential_history, inter_data)

\* C15 - After collect_inter_data has processed a message of game G (one with
\* a primary group), sequential_history contains no key smaller than G - 50:
\* a lookback cannot return an entry older than the retention window relative
\* to the game just recorded. Holds for both predictors.
C15_Eviction ==
  \A m \in WideMsgs :
    HasPrimary(m)
    => \A k \in DOMAIN CollectResult(m).hist : k >= m.num - 50

\* A game that fired (so it was recorded) is gone from the history, which
\* holds a game more than 50 numbers later.
C15_Witness ==
  \E i \in 1..Len(fires) :
    /\ fires[i].game \notin DOMAIN sequential_history
    /\ \E k \in DOMAIN sequential_history : k > fires[i].game + 50

\* analyze_and_set_smart_rules() of the running predictor on the current
\* inter_data: the rule list it sets.
AnalyzedRules ==
  IF variant = "677"
  THEN analyze_and_set_smart_rules677(inter_data, is_inter_mode_active, FALSE).rules
  ELSE analyze_and_set_smart_rules(inter_data, is_inter_mode_active, FALSE).rules

Occurrences(cards) == Cardinality({i \in 1..Len(inter_data) : inter_data[i].declencheur = cards})

FirstAppearance(cards) == Min({i \in 1..Len(inter_data) : inter_data[i].declencheur = cards})

LearnedPairs == {inter_data[i].declencheur : i \in 1..Len(inter_data)}

\* C16 - analyze_and_set_smart_rules sets smart_rules to the at most three
\* trigger card-pairs with the highest occurrence counts in inter_data, each
\* with its exact count, in non-increasing count order, ties ordered by first
\* appearance in inter_data (also against the pairs left out); a repeated
\* call on the same inter_data gives the same list. Holds for both predictors.
C16_TopThree ==
  LET rules == AnalyzedRules
      chosen == {rules[i].cards : i \in 1..Len(rules)}
      Before(a, b) == \/ Occurrences(a) > Occurrences(b)
                      \/ Occurrences(a) = Occurrences(b) /\ FirstAppearance(a) < FirstAppearance(b)
  IN  /\ Len(rules) = IF Cardinality(LearnedPairs) < 3 THEN Cardinality(LearnedPairs) ELSE 3
      /\ chosen \subseteq LearnedPairs
      /\ \A i \in 1..Len(rules) : rules[i].count = Occurrences(rules[i].cards)
      /\ \A i, j \in 1..Len(rules) : i < j => Before(rules[i].cards, rules[j].cards)
      /\ \A a \in chosen, b \in LearnedPairs \ chosen : Before(a, b)
      /\ (nops > 0 /\ (variant = "simple" \/ is_inter_mode_active)) => smart_rules = rules

\* The rules were computed from four learned pairs: three are kept, the
\* second and third with equal counts, and the pair left out ties with them.
C16_Witness ==
  /\ nops > 0
  /\ Len(smart_rules) = 3
  /\ Cardinality(LearnedPairs) = 4
  /\ smart_rules[2].count = smart_rules[3].count
  /\ \E b \in LearnedPairs :
       /\ \A i \in 1..3 : smart_rules[i].cards # b
       /\ Occurrences(b) = smart_rules[3].count

\* C17 - set_inter_mode(False) empties the rule list, sets the learner
\* inactive and leaves inter_data unchanged; set_inter_mode(True) recomputes
\* the rules from inter_data (unchanged too) and leaves the learner active if
\* and only if the resulting rule list is non-empty.
C17_SetInterMode ==
  [][ \A status \in BOOLEAN :
        SetInterMode677(status)
        => /\ inter_data' = inter_data
           /\ ~status => (smart_rules' = << >> /\ ~is_inter_mode_active')
           /\ status =>
                /\ smart_rules' = analyze_and_set_smart_rules677(inter_data, TRUE, FALSE).rules
                /\ is_inter_mode_active' = (Len(smart_rules') > 0)
                /\ (Len(smart_rules') > 0) = (Len(inter_data) > 0) ]_vars

\* The learner was enabled on a non-empty inter_data and then disabled: the
\* rules are gone, the learner is inactive and inter_data is still there.
C17_Witness ==
  /\ variant = "677"
  /\ nops >= 2
  /\ Len(inter_data) > 0
  /\ smart_rules = << >>
  /\ ~is_inter_mode_active

\* Outbound calls of the handler, by what they answer.
EditsFor(t) ==
  {i \in 1..Len(outbox) : outbox[i].kind = "edit" /\ outbox[i].target = t}

SentIdsFor(t) ==
  {outbox[i].message_id : i \in {j \in 1..Len(outbox) :
      /\ outbox[j].kind = "send" /\ outbox[j].cause = "fire"
      /\ outbox[j].target = t /\ outbox[j].message_id # NoId}}

FireSends == {i \in 1..Len(outbox) : outbox[i].kind = "send" /\ outbox[i].cause = "fire"}

ResolutionSends ==
  {i \in 1..Len(outbox) : outbox[i].kind = "send" /\ outbox[i].cause = "resolution"}

\* C20 - In the update handler every resolution returned by the verifier is
\* answered by exactly one edit, addressed to a prediction message that was
\* sent for that target, and every rule fire by exactly one send; no
\* resolution is answered by a new message or by no outbound call.
C20_OneEditPerResolution ==
  /\ \A t \in DOMAIN resolved :
       /\ Cardinality(EditsFor(t)) = Len(resolved[t])
       /\ \A i \in EditsFor(t) : outbox[i].message_id \in SentIdsFor(t)
  /\ ResolutionSends = {}
  /\ Cardinality(FireSends) = Len(fires)

\* The sends of a new prediction for target t issued before position i.
FireSendsBefore(t, i) ==
  {j \in 1..(i - 1) : /\ outbox[j].kind = "send" /\ outbox[j].cause = "fire"
                      /\ outbox[j].target = t}

RecordAt(preds, t) == IF t \in DOMAIN preds THEN <<preds[t]>> ELSE << >>

\* C22 - When an outbound send or edit fails, the ledger record of its target
\* is as it was before the inbound message that caused the call was handled
\* (no record created by a failed send, no status change kept after a failed
\* edit), and the call is not issued a second time while handling it.
C22_FailedCallLeavesRecord ==
  [][\A i \in (Len(outbox) + 1)..Len(outbox') :
       ~outbox'[i].ok =>
         /\ RecordAt(predictions', outbox'[i].target)
              = RecordAt(predictions, outbox'[i].target)
         /\ \A j \in (Len(outbox) + 1)..Len(outbox') :
              (j # i /\ outbox'[j].target = outbox'[i].target)
                => outbox'[j].cause # outbox'[i].cause]_vars

C24_DroppedOnError ==
  \A id \in 1..Len(updates) :
    updates[id].bad => Count(calls, id) <= 1

\* The empty default of each persisted entity.
DefaultOf(file) ==
  IF file = "processed.json" THEN "EmptySet"
  ELSE IF file = "last_prediction_time.json" THEN "Zero"
  ELSE IF file = "inter_mode_status.json" THEN "False"
  ELSE IF file \in {"inter_data.json", "smart_rules.json"} THEN "EmptyList"
  ELSE "EmptyMap"

\* C25 - Loading a persisted entity never raises and yields the entity's empty
\* default (empty map, list or set, zero cooldown, inactive flag) when its file
\* is missing or its content is malformed, whatever the other files hold; the
\* constructor always completes.
C25_LoadDefaults ==
  /\ ctor # "raised"
  /\ \A f \in DOMAIN loaded :
       files[f] \in {"missing", "garbage", "badbytes", "null"} => loaded[f] = DefaultOf(f)

\* C26 - A failing write of one persisted file is caught and not retried:
\* _save_all_data still calls _save_data once on every file of its list, in
\* order, the in-memory mutation made before the save is kept, and the
\* operation that saved (make_prediction) returns its normal result.
C26_SaveBestEffort ==
  [][writes' # writes =>
       /\ writes'.attempts = (IF variant = "677" THEN SaveOrder677 ELSE SaveOrder)
       /\ writes'.returned # <<"raised">>
       /\ \E g \in 1..MaxSaveGame :
            /\ g + TargetDistance \in DOMAIN predictions'
            /\ predictions'[g + TargetDistance].status = "pending"
            /\ writes'.returned = predictions'[g + TargetDistance].message_text]_vars

\* A save in which the first write failed and a later file was written.
C26_Witness ==
  /\ writes.attempts # << >>
  /\ files["predictions.json"] = "garbage"
  /\ \E f \in FileNames : f # "predictions.json" /\ files[f] = "valid"
  /\ DOMAIN predictions # {}

\* The recorded cards of game g hold a Q.
RecordedQ(hist, g) == "Q" \in Elems(CardValues(hist[g]))

\* Number of recorded games, scanning backward from the latest, without Q in
\* their recorded cards, up to the first game that has one.
RECURSIVE TrailingAbsence(_, _)
TrailingAbsence(hist, games) ==
  IF games = {} THEN 0
  ELSE IF RecordedQ(hist, Max(games)) THEN 0
  ELSE 1 + TrailingAbsence(hist, games \ {Max(games)})

\* C27 - The absence counter of rule 5 equals the number of most recent
\* recorded games, scanning backward from the latest, whose recorded cards hold
\* no Q, stopping at the first game with Q or when the history is exhausted, for
\* every reachable history, Q games without a recorded N-2 trigger included.
C27_AbsenceCounter ==
  variant = "677" =>
    count_absence_q677(sequential_history, inter_data)
      = TrailingAbsence(sequential_history, DOMAIN sequential_history)

Weak(values) == Elems(values) \cap HIGH_VALUE_CARDS = {}

SecondaryValues(m) == CardValues(extract_card_details(Text(m).g2))

\* The recorded cards of the game before m hold no high-value rank.
PrevWeak(m) ==
  /\ (m.num - 1) \in DOMAIN sequential_history
  /\ Weak(CardValues(sequential_history[m.num - 1]))

\* should_predict fires on m through the double-weak branch: the label is
\* 70% and neither the 8-9-10 rule nor K with J nor the O/R tag accounts for it.
DoubleWeakFired(m) ==
  LET r == should_predict677(m, now)
      v == Elems(PrimaryValues(m))
      w == Elems(SecondaryValues(m))
  IN  /\ m.num # NoGame
      /\ r.fire /\ r.confidence = "70%"
      /\ ~("K" \in v /\ "J" \in v)
      /\ ~Text(m).tag
      /\ ~( /\ ~(is_inter_mode_active /\ Len(smart_rules) > 0)
            /\ ({"8", "9", "10"} \subseteq v \/ {"8", "9", "10"} \subseteq w) )

\* C28 as stated: the double-weak branch fires only when neither group of the
\* current message holds a high-value rank and the recorded cards of game N-1
\* hold none either.
C28_Original ==
  variant = "677" =>
    \A m \in AllMsgs :
      DoubleWeakFired(m) => Weak(PrimaryValues(m)) /\ Weak(SecondaryValues(m)) /\ PrevWeak(m)

\* C28 - The double-weak branch (rule 8c) fires only when the primary group of
\* the current message holds no high-value rank (A, K, Q, J) and the recorded
\* cards of game N-1 hold none either; the secondary group is not consulted.
C28_DoubleWeak ==
  variant = "677" =>
    \A m \in AllMsgs :
      DoubleWeakFired(m) => Weak(PrimaryValues(m)) /\ PrevWeak(m)

\* The branch fires on a message whose secondary group holds a K.
C28_Witness ==
  /\ variant = "677"
  /\ \E m \in AllMsgs : DoubleWeakFired(m) /\ ~Weak(SecondaryValues(m))

\* C29 - collect_inter_data appends an entry for game N only when the primary
\* group of the message holds Q and sequential_history holds game N-2 at that
\* moment; the entry names N-2 as its trigger game and carries the cards
\* recorded for N-2.  Every entry of inter_data has trigger game = resolved
\* game - 2, and a Q game handled while N-2 is not recorded gets no entry from
\* that call.
C29_TriggerRecorded ==
  variant = "677" =>
    /\ \A i \in 1..Len(inter_data) :
         inter_data[i].numero_declencheur = inter_data[i].numero_resultat - 2
    /\ \A m \in AllMsgs :
         m.num # NoGame =>
           LET c == collect_inter_data677(m.num, m, sequential_history, inter_data)
               trigger == m.num - 2
           IN  /\ c.inter # inter_data =>
                    /\ HasQ(m)
                    /\ trigger \in DOMAIN sequential_history
                    /\ c.inter = Append(inter_data,
                                        [numero_resultat |-> m.num,
                                         declencheur |-> sequential_history[trigger],
                                         numero_declencheur |-> trigger])
               /\ (HasQ(m) /\ trigger \notin DOMAIN sequential_history)
                    => c.inter = inter_data

\* inter_data holds an entry, and a Q message of a game whose N-2 is not
\* recorded is at hand, as well as one whose N-2 is recorded and that would be
\* entered.
C29_Witness ==
  /\ variant = "677"
  /\ Len(inter_data) > 0
  /\ \E m \in AllMsgs :
       /\ m.num # NoGame /\ HasQ(m) /\ (m.num - 2) \notin DOMAIN sequential_history
  /\ \E m \in AllMsgs :
       /\ m.num # NoGame /\ HasQ(m)
       /\ collect_inter_data677(m.num, m, sequential_history, inter_data).inter # inter_data

\* The first two primary-group cards of m equal, as an ordered pair, the
\* card pair of one learned rule.
LearnedMatch(m) ==
  \E i \in 1..Len(smart_rules) :
    /\ Len(Text(m).g1) >= 2
    /\ Len(smart_rules[i].cards) = 2
    /\ smart_rules[i].cards[1] = Text(m).g1[1]
    /\ smart_rules[i].cards[2] = Text(m).g1[2]

\* The first two primary-group cards of m are the pair of a learned rule in
\* reverse order, and no learned rule has them in the order of m.
ReversedMatch(m) ==
  /\ ~LearnedMatch(m)
  /\ \E i \in 1..Len(smart_rules) :
       /\ Len(Text(m).g1) >= 2
       /\ smart_rules[i].cards[1] = Text(m).g1[2]
       /\ smart_rules[i].cards[2] = Text(m).g1[1]

FiresInter(m) ==
  LET r == should_predict677(m, now)
  IN  r.fire /\ r.confidence = "INTER"

\* C30 as stated: with the learner active and a non-empty rule list, a
\* finalized message without Q in the primary group fires with the label
\* INTER exactly when its first two primary-group cards equal, as an ordered
\* pair, the card pair of one learned rule.
C30_Original ==
  variant = "677" =>
    \A m \in AllMsgs :
      ( /\ is_inter_mode_active
        /\ Len(smart_rules) > 0
        /\ Finalized(m)
        /\ ~HasQ(m) )
      => (FiresInter(m) <=> LearnedMatch(m))

\* C30 - With the learner active and a non-empty rule list, a finalized
\* message with a game number and without Q in the primary group, arriving
\* with the cooldown elapsed and its game not yet processed, fires with the
\* label INTER exactly when its first two primary-group cards equal, as an
\* ordered pair, the card pair of one learned rule; the reversed pair does not
\* match.
C30_LearnedTrigger ==
  variant = "677" =>
    \A m \in AllMsgs :
      ( /\ is_inter_mode_active
        /\ Len(smart_rules) > 0
        /\ Finalized(m)
        /\ ~HasQ(m)
        /\ m.num # NoGame
        /\ Clear(m) )
      => /\ FiresInter(m) <=> LearnedMatch(m)
         /\ ReversedMatch(m) => ~FiresInter(m)

\* The learner is active with rules; one message at hand fires with INTER on a
\* learned pair and another carries a learned pair in reverse order.
C30_Witness ==
  /\ variant = "677"
  /\ is_inter_mode_active
  /\ Len(smart_rules) > 0
  /\ \E m \in AllMsgs :
       /\ Finalized(m) /\ ~HasQ(m) /\ m.num # NoGame /\ Clear(m)
       /\ LearnedMatch(m) /\ FiresInter(m)
  /\ \E m \in AllMsgs :
       /\ Finalized(m) /\ ~HasQ(m) /\ m.num # NoGame /\ Clear(m)
       /\ ReversedMatch(m)

\* Every record of the ledger sits under originating game + 2; in the 8-rule
\* predictor every record present is pending.
LedgerKeyed ==
  /\ \A t \in DOMAIN predictions : predictions[t].predicted_from = t - 2
  /\ variant = "677" => \A t \in DOMAIN predictions : predictions[t].status = "pending"

\* A key enters the ledger only by a fire, and the record a fire files under
\* game + 2 is pending and carries no transport message id.
LedgerCreate ==
  /\ \A t \in DOMAIN predictions' \ DOMAIN predictions :
       /\ fires' # fires
       /\ t = fires'[Len(fires')].game + 2
  /\ fires' # fires =>
       LET g == fires'[Len(fires')].game
       IN  /\ (g + 2) \in DOMAIN predictions'
           /\ predictions'[g + 2].predicted_from = g
           /\ predictions'[g + 2].status = "pending"
           /\ predictions'[g + 2].message_id = NoId

\* C31 - Every record in the prediction ledger is stored under key T =
\* originating game + 2 and is created with status pending and no transport
\* message id; in the 8-rule predictor every record present in the ledger is
\* pending, because a record is removed in the step that resolves it.
C31_Ledger == [](LedgerKeyed) /\ [][LedgerCreate]_vars

\* A record was created and resolved in the 8-rule predictor, and another is
\* in the ledger.
C31_Witness ==
  /\ variant = "677"
  /\ \E t \in DOMAIN resolved : Len(resolved[t]) > 0 /\ t \notin DOMAIN predictions
  /\ DOMAIN predictions # {}

\* Confidence labels a record may carry; None renders no suffix.
ConfidenceLabels == {"INTER", "98%", None}

\* The ledger preds with the confidence label of each record t replaced by
\* l[t], in the field and in the rendered text.
Relabel(preds, l) ==
  [t \in DOMAIN preds |->
     [preds[t] EXCEPT !.confidence = l[t],
                      !.message_text = PredictionText677(t, "WAIT", l[t])]]

\* What verification decides about a ledger, labels and rendered suffixes
\* left out: per target the status, origin, count and message id.
Unlabelled(preds) ==
  [t \in DOMAIN preds |->
     [status |-> preds[t].status, predicted_from |-> preds[t].predicted_from,
      verification_count |-> preds[t].verification_count,
      message_id |-> preds[t].message_id]]

\* The outcome of one verify call, the label suffix of the text left out.
Outcome(r) ==
  IF r.ret.type = "none" THEN <<"none">>
  ELSE <<r.ret.type, r.ret.predicted_game, r.ret.message_id, r.prediction.status,
         SubSeq(r.ret.new_message, 1, 5)>>

\* C32 - The confidence label has no effect on verification: for the ledger
\* at hand and any ledger that differs from it only in the confidence labels
\* of its records, every message resolves the same target with the same status
\* in both and leaves ledgers that again differ only in the labels; only the
\* suffix of the rendered text differs.  Step by step this gives the same
\* resolutions over any message sequence.
C32_LabelBlind ==
  variant = "677" =>
    \A l \in [DOMAIN predictions -> ConfidenceLabels] :
      \A m \in AllMsgs :
        LET a == verify677(m, predictions)
            b == verify677(m, Relabel(predictions, l))
        IN  /\ Outcome(a) = Outcome(b)
            /\ Unlabelled(a.preds) = Unlabelled(b.preds)
            /\ b.preds = Relabel(a.preds, [t \in DOMAIN a.preds |-> l[t]])
            /\ b.ret.type # "none" =>
                 b.ret.new_message =
                   SubSeq(a.ret.new_message, 1, 5) \o confidence_tag(l[b.ret.predicted_game])

\* Two pending records with different labels are in the ledger and a message
\* at hand resolves one of them.
C32_Witness ==
  /\ variant = "677"
  /\ \E t, u \in DOMAIN predictions : predictions[t].confidence # predictions[u].confidence
  /\ \E m \in AllMsgs : verify677(m, predictions).ret.type # "none"

\* C33 - In the simple predictor a message whose primary group contains Q
\* never fires a prediction, whether or not its first two cards match a
\* learned rule or the group also holds two jacks.
C33_QBlocks ==
  variant = "simple" =>
    \A m \in AllMsgs :
      HasQ(m) => ~should_predict(m, now).fire

\* C34 - A prediction is marked failed only if none of the finalized messages
\* verified within its window (offsets 0 up to the last offset from its
\* target) contained Q in the primary group, also when several pending
\* predictions have overlapping windows and one Q-bearing message falls in
\* more than one window: after verify has run on a finalized Q-bearing message
\* inside the window of the pending target u, no later verify call marks u
\* failed.
C34_FailedOnlyWithoutQ ==
  \A u \in DOMAIN predictions :
    \A m1 \in Msgs, m2 \in Msgs :
      ( /\ predictions[u].status = "pending"
        /\ Finalized(m1) /\ HasQ(m1)
        /\ 0 <= m1.num - u /\ m1.num - u <= LastOffset )
      => LET r1 == VerifyResult(m1, predictions)
             r2 == VerifyResult(m2, r1.preds)
         IN  ~( /\ r2.ret.type # "none"
                /\ r2.ret.predicted_game = u
                /\ r2.prediction.status = "failed" )

\* The prediction for target t has reached a terminal state: verify returned
\* a resolution for it, correct at some offset or failed.
Terminal(t) ==
  /\ t \in DOMAIN resolved
  /\ Len(resolved[t]) > 0
  /\ resolved[t][Len(resolved[t])].status \in
       {"correct_offset_0", "correct_offset_1", "correct_offset_2", "failed"}
  /\ ~Pending(predictions, t)

\* C35 - If finalized messages for every game from a pending prediction's
\* target T through the last offset of its window are delivered in ascending
\* game order and verify is called once per message, the prediction for T
\* eventually reaches a terminal state (correct or failed); no prediction stays
\* pending forever and none is starved by other pending predictions.
C35_EventuallyTerminal ==
  \A t \in 1..MaxGame :
    (Pending(predictions, t) /\ t + LastOffset <= MaxGame) ~> Terminal(t)

\* Two predictions with overlapping windows were pending together and both
\* have reached a terminal state, one of them by the failure branch.
C35_Witness ==
  \E t \in DOMAIN resolved, u \in DOMAIN resolved :
    /\ t < u /\ u - t <= LastOffset
    /\ Terminal(t) /\ Terminal(u)
    /\ resolved[u][1].status = "failed"
    /\ \E i \in 1..Len(fires) : fires[i].game = u - 2 /\ resolved[t][1].game >= u

\* C36 - Ledger persistence round-trips: after _save_all_data and a restart
\* the ledger holds the same records under the same integer target game
\* numbers, and verify resolves a reloaded pending record exactly as it would
\* have before the restart.
C36_RoundTrip ==
  variant = "677" =>
    LET before == InMemory(predictions)
        after == restart677(before)
    IN  /\ after.records = before.records
        /\ DOMAIN predictions # {} => after.key_type = "int"
        /\ \A m \in Msgs :
             verify_loaded677(m, after) = verify_loaded677(m, before)

\* C37 - Starting from the empty default state, after any sequence of
\* should_predict, collect_inter_data, analyze_and_set_smart_rules and
\* set_inter_mode calls, the learner being active implies that the rule list
\* is non-empty, and every rule's card pair occurs as the trigger of at least
\* one inter_data entry.
C37_ActiveHasRules ==
  /\ is_inter_mode_active => Len(smart_rules) > 0
  /\ \A i \in 1..Len(smart_rules) :
       \E j \in 1..Len(inter_data) : inter_data[j].declencheur = smart_rules[i].cards

\* After MaxOps calls the learner is active with a rule learned from a
\* recorded trigger.
C37_Witness ==
  /\ is_inter_mode_active
  /\ Len(smart_rules) > 0
  /\ Len(inter_data) > 0
  /\ nops = MaxOps

\* The game of m (the 8-rule predictor) or the text of m (the simple one) has
\* not fired yet.
NotYetFired(m) ==
  IF variant = "677" THEN m.num \notin processed_messages
  ELSE hash(m) \notin processed_messages

\* should_predict(m) called once the cooldown has elapsed fires.
FiresAfterCooldown(m) ==
  LET later == last_prediction_time + prediction_cooldown + 1
  IN  IF variant = "677" THEN should_predict677(m, later).fire
      ELSE should_predict(m, later).fire

\* should_predict(m) called now has a rule match and returns at the cooldown
\* test.
SuppressedNow(m) ==
  IF variant = "677"
  THEN Suppress677({}, m, should_predict677(m, now), now) # {}
  ELSE SuppressSimple({}, m, now) # {}

\* C38 - A rule match suppressed by the cooldown consumes nothing: the step
\* adds nothing to the processed set, leaves the cooldown timestamp and the
\* ledger unchanged and emits nothing, so that the same message of a game that
\* had not fired, delivered again after the cooldown has elapsed, fires.
C38_SuppressedConsumesNothing ==
  [][ \A m \in Msgs :
        ( /\ <<m.num, now>> \in suppressed'
          /\ SuppressedNow(m)
          /\ ShouldPredict677(m) \/ Predict(m) )
        => /\ processed_messages' = processed_messages
           /\ last_prediction_time' = last_prediction_time
           /\ predictions' = predictions
           /\ fires' = fires
           /\ NotYetFired(m) => FiresAfterCooldown(m)' ]_vars

\* A game whose rule match was suppressed by the cooldown fired on a later
\* delivery.
C38_Witness ==
  \E e \in suppressed :
    \E i \in 1..Len(fires) : fires[i].game = e[1] /\ fires[i].time > e[2]

\* No recorded draw was taken from a text flagged pending.
NoPendingDraw ==
  \A g \in DOMAIN draw_history : ~Texts[draw_history[g].text].pend

\* What one source-channel message does in process_update: a text flagged
\* pending is memorised and nothing else changes; any other text leaves its
\* game out of pending_messages and is the text recorded for the game while
\* the game is kept in the draw history.
PendingOnlyMemorized ==
  \A m \in Msgs, ok \in BOOLEAN :
    ( /\ nops' = nops + 1
      /\ Text(m).pend \/ draw_history' = record_draw(draw_history, m)
      /\ SourceUpdate(m, ok) ) =>
      IF Text(m).pend
      THEN /\ pending_messages' = Put(pending_messages, m.num, [text |-> m.tid])
           /\ UNCHANGED <<engine, history, outbox, draw_history>>
      ELSE /\ m.num \notin DOMAIN pending_messages'
           /\ m.num \in DOMAIN draw_history' => draw_history'[m.num].text = m.tid

====
